---------------------------- MODULE Spec2Model ----------------------------
(***************************************************************************)
(* GraphIt: the request executor (src/lib/request.ts), the subscription    *)
(* manager (second half of src/lib/interpolation.ts), the script sandbox   *)
(* worker (src/lib/scripts.ts), the subscription pane and its message log  *)
(* (src/unnamed/part_005), interpolateString as a function, and one run of *)
(* the request bar (src/components/editor/RequestBar.tsx).                 *)
(*                                                                         *)
(* Strings are sequences of one-character strings, so that interpolation,  *)
(* URL validation and JSON parsing are computed on the text and not        *)
(* assumed.  JavaScript values are tagged records.                         *)
(***************************************************************************)
EXTENDS Integers, Sequences, FiniteSets, TLC

(***************************************************************************)
(* Bounds of the model.                                                    *)
(***************************************************************************)
(***************************************************************************)
(* Text helpers.                                                           *)
(***************************************************************************)
Min(S) == CHOOSE x \in S : \A y \in S : x <= y
Max(S) == CHOOSE x \in S : \A y \in S : x >= y

Letters == {"a", "b", "c", "e", "f", "g", "k", "l", "n", "p", "q", "r", "s",
            "t", "u", "x", "A", "B", "U", "V"}
Digits == {"0", "1", "2"}
DigitVal(c) == CASE c = "0" -> 0 [] c = "1" -> 1 [] c = "2" -> 2

\* String.prototype.trim on the model's alphabet (the only white space is " ").
trim(s) ==
  LET idx == {i \in 1..Len(s) : s[i] # " "}
  IN IF idx = {} THEN <<>> ELSE SubSeq(s, Min(idx), Max(idx))

\* Whether text t occurs in s at position i.
StartsAt(s, i, t) ==
  /\ i >= 1
  /\ i + Len(t) - 1 <= Len(s)
  /\ \A k \in 1..Len(t) : s[i + k - 1] = t[k]

(***************************************************************************)
(* JavaScript values: undefined, null, numbers, booleans, strings and      *)
(* plain objects.                                                          *)
(***************************************************************************)
Undefined == [t |-> "undefined"]
JNull == [t |-> "null"]
JNum(n) == [t |-> "num", n |-> n]
JBool(b) == [t |-> "bool", b |-> b]
JStr(s) == [t |-> "str", s |-> s]
JObj(m) == [t |-> "obj", m |-> m]
JArr(a) == [t |-> "arr", a |-> a]
EmptyObj == JObj(<<>>)

(***************************************************************************)
(* A JavaScript object keeps its keys in insertion order: a map is a       *)
(* sequence of [k, v] entries with distinct keys.                          *)
(***************************************************************************)
MapHas(m, key) == \E i \in 1..Len(m) : m[i].k = key
MapIndex(m, key) == CHOOSE i \in 1..Len(m) : m[i].k = key
MapGet(m, key) == IF MapHas(m, key) THEN m[MapIndex(m, key)].v ELSE Undefined
\* m[key] = value: an existing key keeps its place, a new key goes last.
MapSet(m, key, value) ==
  IF MapHas(m, key)
  THEN [m EXCEPT ![MapIndex(m, key)] = [k |-> key, v |-> value]]
  ELSE Append(m, [k |-> key, v |-> value])
\* delete m[key]
MapDelete(m, key) ==
  IF MapHas(m, key)
  THEN LET i == MapIndex(m, key) IN SubSeq(m, 1, i - 1) \o SubSeq(m, i + 1, Len(m))
  ELSE m
MapKeys(m) == {m[i].k : i \in 1..Len(m)}

ObjSet(o, key, value) == JObj(MapSet(o.m, key, value))
ObjHas(o, key) == MapHas(o.m, key)
ObjGet(o, key) == MapGet(o.m, key)

(***************************************************************************)
(* JSON.parse, on the JSON texts of the model's alphabet: objects with     *)
(* string keys, strings without escapes, non-negative integers, null, true *)
(* and false, with white space between tokens.  The result is              *)
(* [ok |-> TRUE, val, next] or [ok |-> FALSE] (a SyntaxError).             *)
(***************************************************************************)
ParseFail == [ok |-> FALSE]
Parsed(v, n) == [ok |-> TRUE, val |-> v, next |-> n]

SkipWs(s, i) ==
  LET rest == {j \in i..Len(s) : s[j] # " "}
  IN IF rest = {} THEN Len(s) + 1 ELSE Min(rest)

\* A string literal whose opening quote is at i.
parseString(s, i) ==
  LET closes == {j \in (i + 1)..Len(s) : s[j] = "\""}
  IN IF closes = {} THEN ParseFail
     ELSE LET j == Min(closes) IN Parsed(SubSeq(s, i + 1, j - 1), j + 1)

RECURSIVE digitsValue(_)
digitsValue(ds) ==
  IF ds = <<>> THEN 0
  ELSE 10 * digitsValue(SubSeq(ds, 1, Len(ds) - 1)) + DigitVal(ds[Len(ds)])

\* A number whose first digit is at i.
parseNumber(s, i) ==
  LET stops == {j \in i..Len(s) : s[j] \notin Digits}
      e == IF stops = {} THEN Len(s) + 1 ELSE Min(stops)
      ds == SubSeq(s, i, e - 1)
  IN IF Len(ds) > 1 /\ ds[1] = "0" THEN ParseFail
     ELSE Parsed(JNum(digitsValue(ds)), e)

RECURSIVE parseValue(_, _), parseMembers(_, _, _)
parseValue(s, i0) ==
  LET i == SkipWs(s, i0)
  IN IF i > Len(s) THEN ParseFail
     ELSE IF s[i] = "{" THEN
       LET k == SkipWs(s, i + 1)
       IN IF k <= Len(s) /\ s[k] = "}" THEN Parsed(EmptyObj, k + 1)
          ELSE parseMembers(s, k, EmptyObj)
     ELSE IF s[i] = "\"" THEN
       LET r == parseString(s, i)
       IN IF r.ok THEN Parsed(JStr(r.val), r.next) ELSE ParseFail
     ELSE IF s[i] \in Digits THEN parseNumber(s, i)
     ELSE IF StartsAt(s, i, <<"n", "u", "l", "l">>) THEN Parsed(JNull, i + 4)
     ELSE IF StartsAt(s, i, <<"t", "r", "u", "e">>) THEN Parsed(JBool(TRUE), i + 4)
     ELSE IF StartsAt(s, i, <<"f", "a", "l", "s", "e">>) THEN Parsed(JBool(FALSE), i + 5)
     ELSE ParseFail

\* The members of an object from position i (after "{" or ","), added to acc.
parseMembers(s, i0, acc) ==
  LET i == SkipWs(s, i0)
  IN IF i > Len(s) \/ s[i] # "\"" THEN ParseFail
     ELSE
       LET key == parseString(s, i)
       IN IF ~key.ok THEN ParseFail
          ELSE
            LET c == SkipWs(s, key.next)
            IN IF c > Len(s) \/ s[c] # ":" THEN ParseFail
               ELSE
                 LET v == parseValue(s, c + 1)
                 IN IF ~v.ok THEN ParseFail
                    ELSE
                      LET d == SkipWs(s, v.next)
                          acc2 == ObjSet(acc, key.val, v.val)
                      IN IF d > Len(s) THEN ParseFail
                         ELSE IF s[d] = "}" THEN Parsed(acc2, d + 1)
                         ELSE IF s[d] = "," THEN parseMembers(s, d + 1, acc2)
                         ELSE ParseFail

\* JSON.parse(text): [ok |-> TRUE, val |-> v] or [ok |-> FALSE] when it throws.
JsonParse(text) ==
  LET r == parseValue(text, 1)
  IN IF r.ok /\ SkipWs(text, r.next) > Len(text)
     THEN [ok |-> TRUE, val |-> r.val]
     ELSE [ok |-> FALSE]

(***************************************************************************)
(* JSON.stringify and String(value).                                       *)
(***************************************************************************)
Lit(word) == <<word>>

RECURSIVE numText(_)
numText(n) ==
  LET d == CASE n % 10 = 0 -> "0" [] n % 10 = 1 -> "1" [] n % 10 = 2 -> "2"
                [] n % 10 = 3 -> "3" [] n % 10 = 4 -> "4" [] n % 10 = 5 -> "5"
                [] n % 10 = 6 -> "6" [] n % 10 = 7 -> "7" [] n % 10 = 8 -> "8"
                [] OTHER -> "9"
  IN IF n < 10 THEN <<d>> ELSE numText(n \div 10) \o <<d>>

RECURSIVE JsonStringify(_), stringifyMembers(_, _, _), stringifyItems(_, _)
\* JSON.stringify(v) without indentation; members whose value is undefined
\* are left out.
JsonStringify(v) ==
  CASE v.t = "null" -> <<"n", "u", "l", "l">>
    [] v.t = "num" -> numText(v.n)
    [] v.t = "bool" -> IF v.b THEN <<"t", "r", "u", "e">> ELSE <<"f", "a", "l", "s", "e">>
    [] v.t = "str" -> <<"\"">> \o v.s \o <<"\"">>
    [] v.t = "obj" -> <<"{">> \o stringifyMembers(v.m, 1, TRUE) \o <<"}">>
    [] v.t = "arr" -> <<"[">> \o stringifyItems(v.a, 1) \o <<"]">>

stringifyItems(a, i) ==
  IF i > Len(a) THEN <<>>
  ELSE (IF i = 1 THEN <<>> ELSE <<",">>) \o JsonStringify(a[i])
       \o stringifyItems(a, i + 1)

stringifyMembers(m, i, first) ==
  IF i > Len(m) THEN <<>>
  ELSE IF m[i].v = Undefined THEN stringifyMembers(m, i + 1, first)
  ELSE (IF first THEN <<>> ELSE <<",">>)
       \o <<"\"">> \o m[i].k \o <<"\"", ":">> \o JsonStringify(m[i].v)
       \o stringifyMembers(m, i + 1, FALSE)

\* A built-in function, such as the methods every object inherits.
JFunction(name) == [t |-> "fn", name |-> name]

\* String(value) for a primitive or a built-in function.
stringOf(v) ==
  CASE v.t = "str" -> v.s
    [] v.t = "fn" -> Lit("function ") \o v.name \o Lit("() { [native code] }")
    [] v.t = "num" -> numText(v.n)
    [] v.t = "bool" -> IF v.b THEN <<"t", "r", "u", "e">> ELSE <<"f", "a", "l", "s", "e">>
    [] OTHER -> JsonStringify(v)

(***************************************************************************)
(* Interpolation (src/lib/interpolation.ts).  An InterpolationContext is   *)
(* [variables |-> map from names to values].                               *)
(***************************************************************************)
\* The index of the last character of the text that /\{\{([^}]+)\}\}/
\* matches at position i, or 0 when it does not match there.
matchEnd(s, i) ==
  IF StartsAt(s, i, <<"{", "{">>)
  THEN LET closes == {j \in (i + 2)..Len(s) : s[j] = "}"}
       IN IF closes = {} THEN 0
          ELSE LET j == Min(closes)
               IN IF j > i + 2 /\ StartsAt(s, j, <<"}", "}">>) THEN j + 1 ELSE 0
  ELSE 0

\* Names of properties an object literal inherits from Object.prototype
\* (the standard methods and __proto__; legacy accessors are left out).
ProtoName == <<"_", "_", "p", "r", "o", "t", "o", "_", "_">>
ObjectPrototypeNames ==
  { <<"c", "o", "n", "s", "t", "r", "u", "c", "t", "o", "r">>,
    <<"h", "a", "s", "O", "w", "n", "P", "r", "o", "p", "e", "r", "t", "y">>,
    <<"i", "s", "P", "r", "o", "t", "o", "t", "y", "p", "e", "O", "f">>,
    <<"t", "o", "L", "o", "c", "a", "l", "e", "S", "t", "r", "i", "n", "g">>,
    <<"t", "o", "S", "t", "r", "i", "n", "g">>,
    <<"v", "a", "l", "u", "e", "O", "f">>,
    ProtoName }

\* name in obj: an own property or an inherited one.
PropertyIn(m, name) == MapHas(m, name) \/ name \in ObjectPrototypeNames

\* obj[name] of an object created by an object literal: its own property,
\* else the property of Object.prototype of that name (__proto__ reads as
\* Object.prototype itself, an object with no enumerable property), else
\* undefined.
PropertyGet(m, name) ==
  IF MapHas(m, name) THEN MapGet(m, name)
  ELSE IF name = ProtoName THEN EmptyObj
  ELSE IF name \in ObjectPrototypeNames THEN JFunction(name)
  ELSE Undefined

\* Mutant of replacement: the name is looked up as written, not trimmed.
replacementUntrimmed(match, varName, context) ==
  LET value == PropertyGet(context.variables, varName)
  IN IF value = Undefined THEN match
     ELSE IF value.t \in {"obj", "arr", "null"} THEN JsonStringify(value)
     ELSE stringOf(value)

\* The replacement of one match (the callback of template.replace).
replacement(match, varName, context) ==
  LET name == trim(varName)
      value == PropertyGet(context.variables, name)
  IN IF value = Undefined THEN match
     ELSE IF value.t \in {"obj", "arr", "null"} THEN JsonStringify(value)
     ELSE stringOf(value)

RECURSIVE replaceFrom(_, _, _)
replaceFrom(s, i, context) ==
  IF i > Len(s) THEN <<>>
  ELSE LET e == matchEnd(s, i)
       IN IF e = 0 THEN <<s[i]>> \o replaceFrom(s, i + 1, context)
          ELSE replacement(SubSeq(s, i, e), SubSeq(s, i + 2, e - 2), context)
               \o replaceFrom(s, e + 1, context)

interpolateString(template, context) == replaceFrom(template, 1, context)

interpolateHeaders(headers, context) ==
  [i \in 1..Len(headers) |->
     [headers[i] EXCEPT !.key = interpolateString(headers[i].key, context),
                        !.value = interpolateString(headers[i].value, context)]]

\* An AuthConfig is [mode, bearer, basic, apiKey]; an absent branch is Undefined.
interpolateAuth(auth, context) ==
  [mode |-> auth.mode,
   bearer |-> IF auth.bearer = Undefined THEN Undefined
              ELSE [token |-> interpolateString(auth.bearer.token, context)],
   basic |-> IF auth.basic = Undefined THEN Undefined
             ELSE [username |-> interpolateString(auth.basic.username, context),
                   password |-> interpolateString(auth.basic.password, context)],
   apiKey |-> IF auth.apiKey = Undefined THEN Undefined
              ELSE [key |-> interpolateString(auth.apiKey.key, context),
                    value |-> interpolateString(auth.apiKey.value, context),
                    addTo |-> auth.apiKey.addTo]]

(***************************************************************************)
(* Platform functions used by the request executor.                        *)
(***************************************************************************)
\* Whether new URL(url) succeeds: without a base, the text (leading and
\* trailing spaces stripped) must begin with a scheme, a letter followed by
\* letters or digits and then ":".  The schemes the model's texts spell are
\* not special, so everything after the scheme parses.
urlParses(url) ==
  LET t == trim(url)
      colons == {i \in 1..Len(t) : t[i] = ":"}
  IN /\ colons # {}
     /\ LET c == Min(colons)
        IN /\ c > 1
           /\ t[1] \in Letters
           /\ \A i \in 2..(c - 1) : t[i] \in Letters \cup Digits

\* btoa(text): an injective encoding of the text.
btoa(text) == <<"b64(">> \o text \o <<")">>

\* encodeURIComponent: every character that is not unreserved becomes one
\* percent-escape.
escapeOf(c) ==
  CASE c = " " -> "%20" [] c = "\"" -> "%22" [] c = "," -> "%2C"
    [] c = "/" -> "%2F" [] c = ":" -> "%3A" [] c = "=" -> "%3D"
    [] c = "{" -> "%7B" [] c = "}" -> "%7D" [] OTHER -> c
encodeURIComponent(s) == [i \in 1..Len(s) |-> escapeOf(s[i])]
unescapeOf(c) ==
  CASE c = "%20" -> " " [] c = "%22" -> "\"" [] c = "%2C" -> ","
    [] c = "%2F" -> "/" [] c = "%3A" -> ":" [] c = "%3D" -> "="
    [] c = "%7B" -> "{" [] c = "%7D" -> "}" [] OTHER -> c
decodeURIComponent(s) == [i \in 1..Len(s) |-> unescapeOf(s[i])]

\* text.split(sep): the pieces of text between occurrences of the character.
RECURSIVE split(_, _)
split(s, sep) ==
  LET at == {i \in 1..Len(s) : s[i] = sep}
  IN IF at = {} THEN <<s>>
     ELSE LET i == Min(at)
          IN <<SubSeq(s, 1, i - 1)>> \o split(SubSeq(s, i + 1, Len(s)), sep)

(***************************************************************************)
(* The request executor (src/lib/request.ts).                              *)
(*                                                                         *)
(* RequestOptions: [endpoint, query, variables, operationName, headers,    *)
(* auth, httpMethod, fileMappings, useProxy, context]; texts are strings,  *)
(* operationName is Undefined or a string value, a mapping's file is JNull *)
(* or a file.  A thrown value is [isError, message].  A function that may  *)
(* throw before its fetch returns [threw |-> TRUE, error, timer] and       *)
(* otherwise [threw |-> FALSE, call]; timer tells whether the timeout      *)
(* timer had been started (and was cleared by the finally block).          *)
(***************************************************************************)
Error(message) == [isError |-> TRUE, message |-> message]
Threw(error, timerStarted) ==
  [threw |-> TRUE, error |-> error, timer |-> timerStarted]
Issued(call) == [threw |-> FALSE, call |-> call]

ProxyRoute == <<"/", "a", "p", "i", "/", "p", "r", "o", "x", "y">>
ContentType == Lit("Content-Type")

\* Mutant of isValidUrl: only an empty endpoint is rejected.
isValidUrlLoose(url) == url # <<>>

isValidUrl(url) == urlParses(url)

\* Mutant of buildAuthHeader: a populated bearer branch is used whatever the
\* mode.
buildAuthHeaderAnyBranch(auth) ==
  IF auth.bearer # Undefined /\ auth.bearer.token # <<>>
  THEN [key |-> Lit("Authorization"), value |-> Lit("Bearer ") \o auth.bearer.token]
  ELSE JNull

buildAuthHeader(auth) ==
  CASE auth.mode = "bearer" ->
         IF auth.bearer # Undefined /\ auth.bearer.token # <<>>
         THEN [key |-> Lit("Authorization"),
               value |-> Lit("Bearer ") \o auth.bearer.token]
         ELSE JNull
    [] auth.mode = "basic" ->
         IF /\ auth.basic # Undefined
            /\ auth.basic.username # <<>>
            /\ auth.basic.password # <<>>
         THEN [key |-> Lit("Authorization"),
               value |-> Lit("Basic ")
                         \o btoa(auth.basic.username \o <<":">> \o auth.basic.password)]
         ELSE JNull
    [] auth.mode = "api-key" ->
         IF /\ auth.apiKey # Undefined
            /\ auth.apiKey.key # <<>>
            /\ auth.apiKey.value # <<>>
            /\ auth.apiKey.addTo = "header"
         THEN [key |-> auth.apiKey.key, value |-> auth.apiKey.value]
         ELSE JNull
    [] OTHER -> JNull

buildApiKeyQueryParam(auth) ==
  IF /\ auth.mode = "api-key"
     /\ auth.apiKey # Undefined
     /\ auth.apiKey.addTo = "query"
     /\ auth.apiKey.key # <<>>
     /\ auth.apiKey.value # <<>>
  THEN encodeURIComponent(auth.apiKey.key) \o <<"=">>
       \o encodeURIComponent(auth.apiKey.value)
  ELSE <<>>

ProxyHeaderName(name) == Lit("X-GraphIt-Header-") \o name

\* Mutant of addHeaders: the enabled flag is not consulted.
RECURSIVE addHeadersAll(_, _, _, _)
addHeadersAll(result, hs, i, useProxy) ==
  IF i > Len(hs) THEN result
  ELSE addHeadersAll(
         MapSet(result,
                IF useProxy THEN ProxyHeaderName(hs[i].key) ELSE hs[i].key,
                hs[i].value),
         hs, i + 1, useProxy)

\* The loop of buildHeaders over the interpolated headers, from index i.
RECURSIVE addHeaders(_, _, _, _)
addHeaders(result, hs, i, useProxy) ==
  IF i > Len(hs) THEN result
  ELSE addHeaders(
         IF hs[i].enabled
         THEN MapSet(result,
                     IF useProxy THEN ProxyHeaderName(hs[i].key) ELSE hs[i].key,
                     hs[i].value)
         ELSE result,
         hs, i + 1, useProxy)

\* Mutant of addAuthAndTarget: the auth header keeps its own name in proxy
\* mode.
addAuthUnprefixed(result, authHeader, useProxy, targetEndpoint) ==
  LET withAuth ==
        IF authHeader # JNull
        THEN MapSet(result, authHeader.key, authHeader.value)
        ELSE result
  IN IF useProxy THEN MapSet(withAuth, Lit("X-GraphIt-Target"), targetEndpoint)
     ELSE withAuth

\* The tail of buildHeaders: the auth header, then the proxy target.
addAuthAndTarget(result, authHeader, useProxy, targetEndpoint) ==
  LET withAuth ==
        IF authHeader # JNull
        THEN MapSet(result,
                    IF useProxy THEN ProxyHeaderName(authHeader.key) ELSE authHeader.key,
                    authHeader.value)
        ELSE result
  IN IF useProxy THEN MapSet(withAuth, Lit("X-GraphIt-Target"), targetEndpoint)
     ELSE withAuth

buildHeaders(headers, auth, context, useProxy, targetEndpoint) ==
  addAuthAndTarget(
    addHeaders(<<[k |-> ContentType, v |-> Lit("application/json")]>>,
               interpolateHeaders(headers, context), 1, useProxy),
    buildAuthHeader(interpolateAuth(auth, context)),
    useProxy, targetEndpoint)

\* {query, variables, operationName} as an object.
operationObject(options, variables) ==
  JObj(<<[k |-> Lit("query"), v |-> JStr(options.query)],
         [k |-> Lit("variables"), v |-> variables],
         [k |-> Lit("operationName"), v |-> options.operationName]>>)

IsTruthy(v) ==
  CASE v.t = "undefined" -> FALSE
    [] v.t = "null" -> FALSE
    [] v.t = "str" -> v.s # <<>>
    [] v.t = "num" -> v.n # 0
    [] v.t = "bool" -> v.b
    [] OTHER -> TRUE

\* Mutant of getSearchParams: the variables text is left out only when it is
\* empty.
getSearchParamsUnlessEmpty(options, variables, apiKeyParam) ==
  LET s1 == <<[k |-> Lit("query"), v |-> options.query]>>
      s2 == IF variables # <<>>
            THEN MapSet(s1, Lit("variables"), variables) ELSE s1
      s3 == IF IsTruthy(options.operationName)
            THEN MapSet(s2, Lit("operationName"), options.operationName.s)
            ELSE s2
  IN IF apiKeyParam # <<>>
     THEN MapSet(s3, decodeURIComponent(split(apiKeyParam, "=")[1]),
                     decodeURIComponent(split(apiKeyParam, "=")[2]))
     ELSE s3

\* The query string of the direct GET: query, variables (unless the text is
\* empty or exactly "{}"), operationName (if given) and the api-key pair.
getSearchParams(options, variables, apiKeyParam) ==
  LET s1 == <<[k |-> Lit("query"), v |-> options.query]>>
      s2 == IF variables # <<>> /\ variables # <<"{", "}">>
            THEN MapSet(s1, Lit("variables"), variables) ELSE s1
      s3 == IF IsTruthy(options.operationName)
            THEN MapSet(s2, Lit("operationName"), options.operationName.s)
            ELSE s2
  IN IF apiKeyParam # <<>>
     THEN MapSet(s3, decodeURIComponent(split(apiKeyParam, "=")[1]),
                     decodeURIComponent(split(apiKeyParam, "=")[2]))
     ELSE s3

\* executeGetRequest once the variables text is interpolated (and, for the
\* proxy body, parsed).
getRequestWith(endpoint, options, headers, variables, parsed) ==
  IF ~urlParses(IF options.useProxy THEN ProxyRoute ELSE endpoint)
  THEN Threw(Error(Lit("Invalid URL")), FALSE)
  ELSE IF options.useProxy
  THEN IF variables # <<>> /\ ~parsed.ok
       THEN Threw(Error(Lit("Unexpected token in JSON")), TRUE)
       ELSE Issued(
         [url |-> [target |-> ProxyRoute, search |-> <<>>],
          method |-> "POST",
          headers |-> MapDelete(MapSet(headers, Lit("X-GraphIt-Method"), Lit("GET")),
                                ContentType),
          body |-> JStr(JsonStringify(operationObject(options,
                     IF variables # <<>> THEN parsed.val ELSE Undefined)))])
  ELSE Issued(
         [url |-> [target |-> endpoint,
                   search |-> getSearchParams(options, variables,
                                buildApiKeyQueryParam(
                                  interpolateAuth(options.auth, options.context)))],
          method |-> "GET",
          headers |-> MapDelete(headers, ContentType),
          body |-> Undefined])

executeGetRequest(endpoint, options, headers) ==
  getRequestWith(endpoint, options, headers,
                 interpolateString(options.variables, options.context),
                 JsonParse(interpolateString(options.variables, options.context)))

\* Mutant of postRequestWith: the variables text is sent as a string, not
\* parsed.
postRequestRawVariables(endpoint, options, headers, useProxy, variables, parsed) ==
  Issued(
    [url |-> [target |-> IF useProxy THEN ProxyRoute ELSE endpoint, search |-> <<>>],
     method |-> "POST",
     headers |-> headers,
     body |-> JStr(JsonStringify(operationObject(options,
                IF variables # <<>> THEN JStr(variables) ELSE Undefined)))])

\* executePostRequest once the variables text is interpolated and parsed.
postRequestWith(endpoint, options, headers, useProxy, variables, parsed) ==
  Issued(
    [url |-> [target |-> IF useProxy THEN ProxyRoute ELSE endpoint, search |-> <<>>],
     method |-> "POST",
     headers |-> headers,
     body |-> JStr(JsonStringify(operationObject(options,
                IF variables # <<>> /\ parsed.ok THEN parsed.val ELSE Undefined)))])

executePostRequest(endpoint, options, headers, useProxy) ==
  postRequestWith(endpoint, options, headers, useProxy,
                  interpolateString(options.variables, options.context),
                  JsonParse(interpolateString(options.variables, options.context)))

\* setNestedValue(obj, path, value) from part i of the split path: the
\* changed object, or ok = FALSE when it throws a TypeError (the in operator
\* or a property assignment applied to a value that is not an object).
RECURSIVE setNested(_, _, _, _)
setNested(current, parts, i, value) ==
  IF current.t # "obj" THEN [ok |-> FALSE]
  ELSE IF i = Len(parts) THEN [ok |-> TRUE, val |-> ObjSet(current, parts[i], value)]
  ELSE LET child == IF ObjHas(current, parts[i]) THEN ObjGet(current, parts[i])
                    ELSE EmptyObj
           r == setNested(child, parts, i + 1, value)
       IN IF r.ok THEN [ok |-> TRUE, val |-> ObjSet(current, parts[i], r.val)]
          ELSE [ok |-> FALSE]

setNestedValue(obj, path, value) == setNested(obj, split(path, "."), 1, value)

\* Mutant of mapFiles: a file is numbered by the position of its mapping in
\* the list, so unbound mappings consume an index.
RECURSIVE mapFilesByPosition(_, _, _, _, _)
mapFilesByPosition(mappings, i, vars, map, fileList) ==
  IF i > Len(mappings) THEN [ok |-> TRUE, vars |-> vars, map |-> map, fileList |-> fileList]
  ELSE IF mappings[i].file = JNull
  THEN mapFilesByPosition(mappings, i + 1, vars, map, fileList)
  ELSE LET r == setNestedValue(vars, mappings[i].variablePath, JNull)
       IN IF ~r.ok THEN [ok |-> FALSE]
          ELSE mapFilesByPosition(mappings, i + 1, r.val,
                 MapSet(map, numText(i - 1),
                        JArr(<<JStr(Lit("variables.") \o mappings[i].variablePath)>>)),
                 Append(fileList, mappings[i].file))

\* The loop of executeMultipartRequest over the file mappings, from index i:
\* [ok, vars, map, fileList].
RECURSIVE mapFiles(_, _, _, _, _)
mapFiles(mappings, i, vars, map, fileList) ==
  IF i > Len(mappings) THEN [ok |-> TRUE, vars |-> vars, map |-> map, fileList |-> fileList]
  ELSE IF mappings[i].file = JNull THEN mapFiles(mappings, i + 1, vars, map, fileList)
  ELSE LET index == Len(fileList)
           r == setNestedValue(vars, mappings[i].variablePath, JNull)
       IN IF ~r.ok THEN [ok |-> FALSE]
          ELSE mapFiles(mappings, i + 1, r.val,
                 MapSet(map, numText(index),
                        JArr(<<JStr(Lit("variables.") \o mappings[i].variablePath)>>)),
                 Append(fileList, mappings[i].file))

\* executeMultipartRequest once the mappings have been walked.
multipartWith(endpoint, options, headers, r) ==
  IF ~r.ok THEN Threw(Error(Lit("Cannot set property")), FALSE)
  ELSE Issued(
    [url |-> [target |-> endpoint, search |-> <<>>],
     method |-> "POST",
     headers |-> MapDelete(headers, ContentType),
     body |-> [t |-> "form",
               parts |-> <<[name |-> Lit("operations"),
                            value |-> JStr(JsonStringify(operationObject(options, r.vars)))],
                           [name |-> Lit("map"),
                            value |-> JStr(JsonStringify(JObj(r.map)))]>>
                         \o [i \in 1..Len(r.fileList) |->
                               [name |-> numText(i - 1), value |-> r.fileList[i]]]]])

\* The variables a multipart request starts from: the parsed text, or {}
\* when the text is empty or does not parse.
multipartVariables(variables, parsed) ==
  IF variables # <<>> /\ parsed.ok THEN parsed.val ELSE EmptyObj

executeMultipartRequest(endpoint, options, headers) ==
  multipartWith(endpoint, options, headers,
    mapFiles(options.fileMappings, 1,
             multipartVariables(interpolateString(options.variables, options.context),
                                JsonParse(interpolateString(options.variables,
                                                            options.context))),
             <<>>, <<>>))

\* The encoding executeRequest selects (the if chain before the fetch).
selectEncoding(httpMethod, hasFiles) ==
  IF httpMethod = "GET" THEN "get"
  ELSE IF hasFiles THEN "multipart"
  ELSE "post"

hasBoundFile(fileMappings) ==
  \E i \in 1..Len(fileMappings) : fileMappings[i].file # JNull

\* The branch of executeRequest that issues the call.
dispatchRequest(o, endpoint, headers, enc) ==
  [encoding |-> enc,
   built |-> CASE enc = "get" -> executeGetRequest(endpoint, o, headers)
               [] enc = "multipart" -> executeMultipartRequest(endpoint, o, headers)
               [] OTHER -> executePostRequest(endpoint, o, headers, o.useProxy)]

\* executeRequest from the interpolated endpoint to its first await.
prepareWith(o, endpoint) ==
  IF endpoint = <<>> \/ ~isValidUrl(endpoint)
  THEN [encoding |-> "none",
        built |-> Threw(Error(Lit("Invalid endpoint URL")), FALSE)]
  ELSE dispatchRequest(o, endpoint,
         buildHeaders(o.headers, o.auth, o.context, o.useProxy, endpoint),
         selectEncoding(o.httpMethod, hasBoundFile(o.fileMappings)))

\* executeRequest up to its first await: the encoding chosen ("none" when
\* the endpoint is rejected) and what the request function did.
prepareRequest(o) == prepareWith(o, interpolateString(o.endpoint, o.context))

\* The catch block of executeRequest: the result built from a thrown value.
\* (duration and timestamp are wall-clock readings and are left out.)
failureResult(error) ==
  [response |-> JNull,
   headers |-> <<>>,
   stats |-> [status |-> 0, statusText |-> Lit("Error"), size |-> 0],
   error |-> IF error.isError THEN JStr(error.message) ELSE JStr(Lit("Unknown error"))]

ParseFailureResponse ==
  JObj(<<[k |-> Lit("errors"),
          v |-> JArr(<<JObj(<<[k |-> Lit("message"),
                               v |-> JStr(Lit("Failed to parse response as JSON"))]>>)>>)]>>)

\* Mutant of successResult: a body that does not parse is reported as a
\* failure of the request.
successResultStrict(response, responseText) ==
  IF JsonParse(responseText).ok
  THEN [response |-> JsonParse(responseText).val,
        headers |-> response.headers,
        stats |-> [status |-> response.status, statusText |-> response.statusText,
                   size |-> Len(responseText)],
        error |-> JNull]
  ELSE failureResult(Error(Lit("Failed to parse response as JSON")))

\* The result built once the body text has been read.
successResult(response, responseText) ==
  LET parsed == JsonParse(responseText)
  IN [response |-> IF parsed.ok THEN parsed.val ELSE ParseFailureResponse,
      headers |-> response.headers,
      stats |-> [status |-> response.status,
                 statusText |-> response.statusText,
                 size |-> Len(responseText)],
      error |-> JNull]

\* How a settled executeRequest promise is recorded.
Returned(result) == [kind |-> "returned", result |-> result]
Rejected(error) == [kind |-> "rejected", error |-> error]
Pending == [kind |-> "pending"]

\* Mutant of catchClause: an abort is rethrown instead of reported.
catchClauseRethrow(error) ==
  IF error.message = Lit("The operation was aborted.")
  THEN Rejected(error)
  ELSE Returned(failureResult(error))

\* What the catch clause of executeRequest settles the promise with.
catchClause(error) == Returned(failureResult(error))

(***************************************************************************)
(* Inputs of the request executor.                                         *)
(***************************************************************************)
EndpointTexts ==
  { <<>>,
    <<"n", " ", "u">>,
    <<"a", ":", "x">>,
    <<"{", "{", "U", "}", "}", "/", "g">> }

Contexts ==
  { [variables |-> <<>>],
    [variables |-> <<[k |-> <<"U">>, v |-> JStr(<<"a", ":", "x">>)],
                     [k |-> <<"V">>, v |-> JObj(<<[k |-> <<"k">>, v |-> JNum(1)]>>)]>>] }

HttpMethods == {"GET", "POST", "PUT", "PATCH", "DELETE"}

VariablesTexts ==
  { <<>>,
    <<"{", "}">>,
    <<"{", "\"", "f", "\"", ":", "1", "}">>,
    <<"1">>,
    <<"{", "{", "V", "}", "}">> }

File(n) == [t |-> "file", id |-> n]
Mapping(path, file) == [variablePath |-> path, file |-> file]
FileMappingLists ==
  { <<>>,
    <<Mapping(<<"f">>, JNull)>>,
    <<Mapping(<<"f">>, File(1))>>,
    <<Mapping(<<"k">>, JNull), Mapping(<<"f", ".", "b">>, File(2))>>,
    <<Mapping(<<"g">>, File(1)), Mapping(<<"k">>, JNull),
      Mapping(<<"h", ".", "b">>, File(2))>> }

Header(key, value, enabled) == [key |-> key, value |-> value, enabled |-> enabled]
HeaderLists ==
  { <<>>,
    <<Header(<<"x">>, <<"{", "{", "U", "}", "}">>, TRUE),
      Header(<<"k">>, <<"1">>, FALSE)>> }

AuthConfigs ==
  { [mode |-> "none", bearer |-> [token |-> <<"s">>], basic |-> Undefined,
     apiKey |-> Undefined],
    [mode |-> "bearer", bearer |-> [token |-> <<"t">>], basic |-> Undefined,
     apiKey |-> Undefined],
    [mode |-> "basic", bearer |-> Undefined,
     basic |-> [username |-> <<"u">>, password |-> <<"{", "{", "U", "}", "}">>],
     apiKey |-> Undefined],
    [mode |-> "api-key", bearer |-> Undefined, basic |-> Undefined,
     apiKey |-> [key |-> <<"k">>, value |-> <<"a", "=", "b">>, addTo |-> "query"]],
    [mode |-> "api-key", bearer |-> [token |-> <<"s">>], basic |-> Undefined,
     apiKey |-> [key |-> <<"k">>, value |-> <<"v">>, addTo |-> "header"]] }

OperationNames == {Undefined, JStr(<<"q">>)}

RequestOptionsSet ==
  [endpoint : EndpointTexts,
   query : {<<"q">>},
   variables : VariablesTexts,
   operationName : OperationNames,
   headers : HeaderLists,
   auth : AuthConfigs,
   httpMethod : HttpMethods,
   fileMappings : FileMappingLists,
   useProxy : BOOLEAN,
   context : Contexts]

\* What the server can answer with.
ResponseHeaderLists == {<<[key |-> Lit("content-type"), value |-> Lit("application/json")]>>}
BodyTexts ==
  { <<>>,
    <<"<">>,
    <<"n", "u", "l", "l">>,
    <<"{", "\"", "k", "\"", ":", "1", "}">> }
Responses ==
  [status : {200}, statusText : {Lit("OK")}, headers : ResponseHeaderLists,
   body : BodyTexts]
  \cup
  [status : {500}, statusText : {Lit("Internal Server Error")},
   headers : ResponseHeaderLists, body : {<<"<">>}]
NoResponse == [status |-> 0]

(***************************************************************************)
(* State.                                                                  *)
(***************************************************************************)
VARIABLES
  options,        \* the RequestOptions of the executeRequest invocation
  pc,             \* where executeRequest is: idle, fetching, reading, done
  encoding,       \* the encoding selected: none, get, multipart, post
  calls,          \* the HTTP calls issued (fetch), in order
  net,            \* the call's promise: none, inflight, aborted, resolved, failed
  timer,          \* the timeout timer: none, pending, fired, cleared
  signalAborted,  \* controller.signal.aborted
  httpResponse,   \* the Response the fetch resolved with
  bodyState,      \* response.text(): unread, read, failed
  outcome,        \* how the executeRequest promise settled
  \* the subscription manager
  clients,        \* every transport client created, in order of creation
  wsClient,       \* module variable wsClient: 0 (null) or an index of clients
  sseClient,      \* module variable sseClient: 0 (null) or an index of clients
  handles,        \* every SubscriptionHandle returned, in order
  events,         \* the callbacks of the options invoked so far, in order
  \* the script sandbox
  runs,           \* every script run started: its promise and its inputs
  inbox,          \* execute messages posted to the worker, not yet handled
  outbox,         \* result messages posted by the worker, not yet delivered
  wpc,            \* the worker: idle, or running the script of a message
  cur,            \* the message the worker is handling
  ip,             \* the statement of the script the worker is at
  logs,           \* worker global logs
  envOverrides,   \* worker global envOverrides
  varsOverrides,  \* worker global varsOverrides
  headersOverrides, \* worker global headersOverrides
  wtimer,         \* the worker's timeout timer: none, pending, cleared
  deadline,       \* the clock reading at which the pending timer is due
  clock,          \* the time
  spin,           \* flips on every iteration of a script's endless loop
  overdue,        \* runs whose script was still running at its deadline
  \* interpolateString applied to a template, again and again
  itemplate,      \* the template
  icontext,       \* the InterpolationContext
  ioutputs,       \* what each application returned, in order
  inames,         \* what extractVariableNames returned for the template, if called
  \* one run of the request bar (handleRun)
  hpc,            \* where handleRun is: idle, preScript, request, postScript,
                  \* history, done
  hrun,           \* what the run started from: tab, environment, settings
  hreq,           \* the options handleRun passed to executeRequest
  hresult,        \* the result executeRequest returned to handleRun
  requestResult,  \* store: the result shown
  requestLoading, \* store: a run is in progress
  scriptLogs,     \* store: the script log
  history,        \* store: the history entries added, in order
  hcaught,        \* the exception handleRun's catch clause caught, if any
  \* the subscription pane
  subscriptionMessages, \* store: the message log
  subscriptionPaused,   \* store: the log is paused
  subscriptionActive,   \* store: a subscription is connected
  subscriptionRef,      \* the handle the pane holds: 0 (null) or an index
  transport,      \* the events the transports raised, in order
  discarded,      \* the callbacks whose message arrived while paused
  cleared         \* the number of callbacks before the log was last cleared

reqVars ==
  <<options, pc, encoding, calls, net, timer, signalAborted, httpResponse,
    bodyState, outcome>>

subVars == <<clients, wsClient, sseClient, handles, events>>

scriptVars ==
  <<runs, inbox, outbox, wpc, cur, ip, logs, envOverrides, varsOverrides,
    headersOverrides, wtimer, deadline, clock, spin, overdue>>

interpVars == <<itemplate, icontext, ioutputs, inames>>

runVars ==
  <<hpc, hrun, hreq, hresult, requestResult, requestLoading, scriptLogs, history,
    hcaught>>

paneVars ==
  <<subscriptionMessages, subscriptionPaused, subscriptionActive, subscriptionRef,
    transport, discarded, cleared>>

vars == <<reqVars, subVars, scriptVars, interpVars, runVars, paneVars>>

RequestInit ==
  /\ options \in RequestOptionsSet
  /\ pc = "idle"
  /\ encoding = "none"
  /\ calls = <<>>
  /\ net = "none"
  /\ timer = "none"
  /\ signalAborted = FALSE
  /\ httpResponse = NoResponse
  /\ bodyState = "unread"
  /\ outcome = Pending

\* executeRequest(options) runs to its first await: either the request
\* function threw and the catch block returns a failure result, or one fetch
\* is issued with the timeout timer pending.
ExecuteRequest ==
  /\ pc = "idle"
  /\ \E p \in {prepareRequest(options)} :
        /\ encoding' = p.encoding
        /\ IF p.built.threw
           THEN /\ pc' = "done"
                /\ outcome' = catchClause(p.built.error)
                /\ timer' = IF p.built.timer THEN "cleared" ELSE "none"
                /\ UNCHANGED <<calls, net>>
           ELSE /\ pc' = "fetching"
                /\ calls' = Append(calls, p.built.call)
                /\ net' = "inflight"
                /\ timer' = "pending"
                /\ UNCHANGED outcome
  /\ UNCHANGED <<options, signalAborted, httpResponse, bodyState>>
  /\ UNCHANGED <<subVars, scriptVars, interpVars, runVars, paneVars>>

\* Mutant of FetchResolve: the finally block does not clear the timer.
FetchResolveKeepsTimer ==
  /\ pc = "fetching" /\ net = "inflight"
  /\ \E r \in Responses : httpResponse' = r
  /\ net' = "resolved"
  /\ pc' = "reading"
  /\ UNCHANGED <<options, encoding, calls, timer, signalAborted, bodyState, outcome>>
  /\ UNCHANGED <<subVars, scriptVars, interpVars, runVars, paneVars>>

\* The fetch promise resolves (the response head has arrived); the finally
\* block clears the timer and executeRequest goes on to read the body.
FetchResolve ==
  /\ pc = "fetching" /\ net = "inflight"
  /\ \E r \in Responses : httpResponse' = r
  /\ net' = "resolved"
  /\ timer' = "cleared"
  /\ pc' = "reading"
  /\ UNCHANGED <<options, encoding, calls, signalAborted, bodyState, outcome>>
  /\ UNCHANGED <<subVars, scriptVars, interpVars, runVars, paneVars>>

\* Mutant of FetchReject: the failed call is issued once more.
FetchRejectRetry ==
  /\ pc = "fetching" /\ net = "inflight"
  /\ Len(calls) < 2
  /\ calls' = Append(calls, calls[1])
  /\ UNCHANGED <<options, pc, encoding, net, timer, signalAborted, httpResponse,
                 bodyState, outcome>>
  /\ UNCHANGED <<subVars, scriptVars, interpVars, runVars, paneVars>>

\* The fetch promise rejects with a network error (a TypeError); the finally
\* block clears the timer and the catch block returns.
FetchReject ==
  /\ pc = "fetching" /\ net = "inflight"
  /\ net' = "failed"
  /\ timer' = "cleared"
  /\ pc' = "done"
  /\ outcome' = catchClause(Error(Lit("Failed to fetch")))
  /\ UNCHANGED <<options, encoding, calls, signalAborted, httpResponse, bodyState>>
  /\ UNCHANGED <<subVars, scriptVars, interpVars, runVars, paneVars>>

\* Mutant of TimerFire: the timer gives up on the call without aborting it.
TimerFireIgnored ==
  /\ timer = "pending" /\ net = "inflight"
  /\ timer' = "fired"
  /\ net' = "aborted"
  /\ UNCHANGED <<options, pc, encoding, calls, signalAborted, httpResponse,
                 bodyState, outcome>>
  /\ UNCHANGED <<subVars, scriptVars, interpVars, runVars, paneVars>>

\* The timeout timer fires while the call is in flight: controller.abort()
\* aborts the signal the fetch was given, which rejects the fetch promise.
TimerFire ==
  /\ timer = "pending" /\ net = "inflight"
  /\ timer' = "fired"
  /\ signalAborted' = TRUE
  /\ net' = "aborted"
  /\ UNCHANGED <<options, pc, encoding, calls, httpResponse, bodyState, outcome>>
  /\ UNCHANGED <<subVars, scriptVars, interpVars, runVars, paneVars>>

\* The aborted fetch's rejection (an AbortError DOMException, an Error)
\* reaches executeRequest: finally, then the catch block.
AbortSettle ==
  /\ pc = "fetching" /\ net = "aborted"
  /\ pc' = "done"
  /\ outcome' = catchClause(Error(Lit("The operation was aborted.")))
  /\ UNCHANGED <<options, encoding, calls, net, timer, signalAborted, httpResponse,
                 bodyState>>
  /\ UNCHANGED <<subVars, scriptVars, interpVars, runVars, paneVars>>

\* response.text() resolves: the body is parsed and the result returned.
ReadBody ==
  /\ pc = "reading"
  /\ pc' = "done"
  /\ bodyState' = "read"
  /\ outcome' = Returned(successResult(httpResponse, httpResponse.body))
  /\ UNCHANGED <<options, encoding, calls, net, timer, signalAborted, httpResponse>>
  /\ UNCHANGED <<subVars, scriptVars, interpVars, runVars, paneVars>>

\* response.text() rejects (the connection broke while the body was read).
ReadBodyFail ==
  /\ pc = "reading"
  /\ pc' = "done"
  /\ bodyState' = "failed"
  /\ outcome' = catchClause(Error(Lit("Failed to read body")))
  /\ UNCHANGED <<options, encoding, calls, net, timer, signalAborted, httpResponse>>
  /\ UNCHANGED <<subVars, scriptVars, interpVars, runVars, paneVars>>

RequestNext ==
  \/ ExecuteRequest
  \/ FetchResolve
  \/ FetchReject
  \/ TimerFire
  \/ AbortSettle
  \/ ReadBody
  \/ ReadBodyFail

(***************************************************************************)
(* The subscription manager (src/lib/interpolation.ts, lines 107-357).     *)
(*                                                                         *)
(* A client of graphql-ws or graphql-sse is [kind, url, headers, disposed, *)
(* released]: disposed once dispose() was called on it, released once the  *)
(* function its subscribe() returned was called (or it was disposed).  A   *)
(* handle is [protocol, client, calls]: the client created by the          *)
(* subscribe call that returned it (0 for appsync) and the number of times *)
(* its unsubscribe() has been called.                                      *)
(***************************************************************************)
\* Largest number of subscribe calls in one behaviour.
MaxHandles == 3
\* Largest number of calls of one handle's unsubscribe().
MaxUnsubscribeCalls == 2

SubscriptionUrls == {<<"h", "t", "t", "p", ":", "x">>}
Protocols == {"ws", "sse", "appsync"}

SubscriptionOptionsSet ==
  [url : SubscriptionUrls,
   headers : HeaderLists,
   auth : {a \in AuthConfigs : a.mode = "bearer"},
   protocol : Protocols,
   context : {c \in Contexts : c.variables # <<>>}]

\* The loop of subscribe over the interpolated headers, from index i.
RECURSIVE enabledHeaders(_, _, _)
enabledHeaders(result, hs, i) ==
  IF i > Len(hs) THEN result
  ELSE enabledHeaders(
         IF hs[i].enabled THEN MapSet(result, hs[i].key, hs[i].value) ELSE result,
         hs, i + 1)

\* The auth header subscribe adds to the connection headers.
addSubscriptionAuth(headers, auth) ==
  IF auth.mode = "bearer" /\ auth.bearer # Undefined /\ auth.bearer.token # <<>>
  THEN MapSet(headers, Lit("Authorization"), Lit("Bearer ") \o auth.bearer.token)
  ELSE IF auth.mode = "basic" /\ auth.basic # Undefined
  THEN MapSet(headers, Lit("Authorization"),
              Lit("Basic ") \o btoa(auth.basic.username \o <<":">> \o auth.basic.password))
  ELSE IF auth.mode = "api-key" /\ auth.apiKey # Undefined /\ auth.apiKey.addTo = "header"
  THEN MapSet(headers, auth.apiKey.key, auth.apiKey.value)
  ELSE headers

\* The connection headers subscribe computes.
subscriptionHeaders(o) ==
  addSubscriptionAuth(enabledHeaders(<<>>, interpolateHeaders(o.headers, o.context), 1),
                      interpolateAuth(o.auth, o.context))

\* url.replace(/^http/, 'ws')
wsUrl(url) ==
  IF StartsAt(url, 1, <<"h", "t", "t", "p">>)
  THEN <<"w", "s">> \o SubSeq(url, 5, Len(url))
  ELSE url

\* A new client has yet to connect (conn: connecting, open or closed) and
\* has not reconnected.
NewClient(kind, url, headers) ==
  [kind |-> kind, url |-> url, headers |-> headers,
   disposed |-> FALSE, released |-> FALSE, conn |-> "connecting", retries |-> 0]

\* client.dispose(): the client is closed and its subscription ends.
Disposed(cs, c) ==
  IF c = 0 THEN cs ELSE [cs EXCEPT ![c].disposed = TRUE, ![c].released = TRUE]

\* The function returned by client.subscribe(): the subscription is released.
Released(cs, c) == [cs EXCEPT ![c].released = TRUE]

Event(h, cb, type) == [h |-> h, cb |-> cb, type |-> type]

SubInit ==
  /\ clients = <<>>
  /\ wsClient = 0
  /\ sseClient = 0
  /\ handles = <<>>
  /\ events = <<>>

\* subscribeWebSocket: a client is created and stored in wsClient, the
\* subscription is started on it and a handle is returned.
SubscribeWebSocket(o) ==
  /\ o.protocol = "ws"
  /\ clients' = Append(clients,
                  NewClient("ws", wsUrl(interpolateString(o.url, o.context)),
                            subscriptionHeaders(o)))
  /\ wsClient' = Len(clients) + 1
  /\ handles' = Append(handles, [protocol |-> "ws", client |-> Len(clients) + 1,
                                 calls |-> 0])
  /\ UNCHANGED <<sseClient, events>>

\* subscribeSSE: a client is created and stored in sseClient, onConnected
\* and a connection message are delivered, the subscription is started and
\* a handle is returned.
SubscribeSSE(o) ==
  /\ o.protocol = "sse"
  /\ clients' = Append(clients,
                  NewClient("sse", interpolateString(o.url, o.context),
                            subscriptionHeaders(o)))
  /\ sseClient' = Len(clients) + 1
  /\ handles' = Append(handles, [protocol |-> "sse", client |-> Len(clients) + 1,
                                 calls |-> 0])
  /\ events' = events \o <<Event(Len(handles) + 1, "onConnected", "none"),
                           Event(Len(handles) + 1, "onMessage", "connection")>>
  /\ UNCHANGED wsClient

\* subscribeAppSync: an error message and onError, no client.
SubscribeAppSync(o) ==
  /\ o.protocol = "appsync"
  /\ handles' = Append(handles, [protocol |-> "appsync", client |-> 0, calls |-> 0])
  /\ events' = events \o <<Event(Len(handles) + 1, "onMessage", "error"),
                           Event(Len(handles) + 1, "onError", "none")>>
  /\ UNCHANGED <<clients, wsClient, sseClient>>

\* subscribe(options)
Subscribe ==
  /\ Len(handles) < MaxHandles
  /\ \E o \in SubscriptionOptionsSet :
       \/ SubscribeWebSocket(o)
       \/ SubscribeSSE(o)
       \/ SubscribeAppSync(o)
  /\ UNCHANGED <<reqVars, scriptVars, interpVars, runVars, paneVars>>

\* handle.unsubscribe() of a ws handle: the handle's own subscription is
\* released, then whatever client wsClient refers to is disposed and
\* wsClient is cleared.
UnsubscribeWebSocket(h) ==
  /\ handles[h].protocol = "ws"
  /\ clients' = Disposed(Released(clients, handles[h].client), wsClient)
  /\ wsClient' = 0
  /\ UNCHANGED sseClient

\* handle.unsubscribe() of an sse handle.
UnsubscribeSSE(h) ==
  /\ handles[h].protocol = "sse"
  /\ clients' = Disposed(Released(clients, handles[h].client), sseClient)
  /\ sseClient' = 0
  /\ UNCHANGED wsClient

\* Mutant of UnsubscribeAppSync: it disposes the tracked ws client.
UnsubscribeAppSyncDisposes(h) ==
  /\ handles[h].protocol = "appsync"
  /\ clients' = Disposed(clients, wsClient)
  /\ wsClient' = 0
  /\ UNCHANGED sseClient

\* handle.unsubscribe() of an appsync handle does nothing.
UnsubscribeAppSync(h) ==
  /\ handles[h].protocol = "appsync"
  /\ UNCHANGED <<clients, wsClient, sseClient>>

Unsubscribe ==
  /\ \E h \in 1..Len(handles) :
       /\ handles[h].calls < MaxUnsubscribeCalls
       /\ handles' = [handles EXCEPT ![h].calls = @ + 1]
       /\ \/ UnsubscribeWebSocket(h)
          \/ UnsubscribeSSE(h)
          \/ UnsubscribeAppSync(h)
  /\ UNCHANGED events
  /\ UNCHANGED <<reqVars, scriptVars, interpVars, runVars, paneVars>>

\* disconnectAll(): whatever wsClient and sseClient refer to is disposed and
\* both are cleared.
DisconnectAll ==
  /\ wsClient # 0 \/ sseClient # 0
  /\ clients' = Disposed(Disposed(clients, wsClient), sseClient)
  /\ wsClient' = 0
  /\ sseClient' = 0
  /\ UNCHANGED <<handles, events>>
  /\ UNCHANGED <<reqVars, scriptVars, interpVars, runVars, paneVars>>

SubNext ==
  \/ Subscribe
  \/ Unsubscribe
  \/ DisconnectAll

(***************************************************************************)
(* The subscription pane (src/unnamed/part_005, SubscriptionPane) and the  *)
(* callbacks it gives subscribe; the message log of the store              *)
(* (src/lib/scripts.ts, lines 697-703); and the events the graphql-ws and  *)
(* graphql-sse clients raise on the handlers of subscribeWebSocket and     *)
(* subscribeSSE (src/lib/interpolation.ts, lines 189-246 and 283-310).     *)
(*                                                                         *)
(* A message of the log is [h, at, type]: the handle whose callback        *)
(* delivered it, the place of that callback in events (which stands for    *)
(* the message's id and timestamp) and its type.                           *)
(***************************************************************************)
\* Largest number of handleConnect calls in one behaviour.
MaxConnects == 2
\* Largest number of events the transports raise in one behaviour.
MaxTransportEvents == 3
\* Largest number of reconnections of one graphql-ws client (its
\* retryAttempts option, 5 by default).
MaxRetries == 1

PaneOptionsSet == {o \in SubscriptionOptionsSet : o.headers = <<>>}

\* The elements of a set of numbers, in ascending order.
RECURSIVE Ascending(_)
Ascending(S) == IF S = {} THEN <<>> ELSE <<Min(S)>> \o Ascending(S \ {Min(S)})

\* The message the pane's onMessage or onError callback hands to
\* addSubscriptionMessage for the callback at place i of the events.
paneMessage(evs, i) ==
  [h |-> evs[i].h, at |-> i,
   type |-> IF evs[i].cb = "onError" THEN "error" ELSE evs[i].type]

PaneInit ==
  /\ subscriptionMessages = <<>>
  /\ subscriptionPaused = FALSE
  /\ subscriptionActive = FALSE
  /\ subscriptionRef = 0
  /\ transport = <<>>
  /\ discarded = {}
  /\ cleared = 0

\* Mutant of PaneCallbacks: a new message goes to the front of the log.
PaneCallbacksPrepend ==
  LET new == (Len(events) + 1)..Len(events')
      msgs == {i \in new : events'[i].cb \in {"onMessage", "onError"}}
      flags == {i \in new : events'[i].cb \in {"onConnected", "onComplete"}}
  IN /\ subscriptionMessages' =
          IF subscriptionPaused THEN subscriptionMessages
          ELSE [k \in 1..Cardinality(msgs) |-> paneMessage(events', Ascending(msgs)[k])]
               \o subscriptionMessages
     /\ discarded' = IF subscriptionPaused THEN discarded \cup msgs ELSE discarded
     /\ subscriptionActive' =
          IF flags = {} THEN subscriptionActive
          ELSE events'[Max(flags)].cb = "onConnected"

\* The pane's callbacks, run for the callbacks a step of the manager
\* invokes: onMessage and onError call addSubscriptionMessage, which drops
\* the message while the log is paused and else appends it; onConnected and
\* onComplete set subscriptionActive.
PaneCallbacks ==
  LET new == (Len(events) + 1)..Len(events')
      msgs == {i \in new : events'[i].cb \in {"onMessage", "onError"}}
      flags == {i \in new : events'[i].cb \in {"onConnected", "onComplete"}}
  IN /\ subscriptionMessages' =
          IF subscriptionPaused THEN subscriptionMessages
          ELSE subscriptionMessages
               \o [k \in 1..Cardinality(msgs) |-> paneMessage(events', Ascending(msgs)[k])]
     /\ discarded' = IF subscriptionPaused THEN discarded \cup msgs ELSE discarded
     /\ subscriptionActive' =
          IF flags = {} THEN subscriptionActive
          ELSE events'[Max(flags)].cb = "onConnected"

\* handleConnect: subscribe with the pane's callbacks; the handle is kept.
HandleConnect ==
  /\ Len(handles) < MaxConnects
  /\ \E o \in PaneOptionsSet :
       \/ SubscribeWebSocket(o)
       \/ SubscribeSSE(o)
       \/ SubscribeAppSync(o)
  /\ subscriptionRef' = Len(handles) + 1
  /\ PaneCallbacks
  /\ UNCHANGED <<subscriptionPaused, transport, cleared>>
  /\ UNCHANGED <<reqVars, scriptVars, interpVars, runVars>>

\* handleDisconnect: the kept handle is unsubscribed and forgotten.
HandleDisconnect ==
  /\ subscriptionRef # 0
  /\ \E h \in {subscriptionRef} :
       /\ handles' = [handles EXCEPT ![h].calls = @ + 1]
       /\ \/ UnsubscribeWebSocket(h)
          \/ UnsubscribeSSE(h)
          \/ UnsubscribeAppSync(h)
  /\ subscriptionRef' = 0
  /\ subscriptionActive' = FALSE
  /\ UNCHANGED <<events, subscriptionMessages, subscriptionPaused, transport,
                 discarded, cleared>>
  /\ UNCHANGED <<reqVars, scriptVars, interpVars, runVars>>

\* toggleSubscriptionPaused
TogglePaused ==
  /\ subscriptionPaused' = ~subscriptionPaused
  /\ UNCHANGED <<subscriptionMessages, subscriptionActive, subscriptionRef,
                 transport, discarded, cleared>>
  /\ UNCHANGED <<reqVars, subVars, scriptVars, interpVars, runVars>>

\* clearSubscriptionMessages
ClearMessages ==
  /\ subscriptionMessages # <<>>
  /\ subscriptionMessages' = <<>>
  /\ cleared' = Len(events)
  /\ UNCHANGED <<subscriptionPaused, subscriptionActive, subscriptionRef,
                 transport, discarded>>
  /\ UNCHANGED <<reqVars, subVars, scriptVars, interpVars, runVars>>

\* The client of handle h can raise events: it exists and is not disposed.
Live(h) == handles[h].client # 0 /\ ~clients[handles[h].client].disposed

\* A transport event ev reaches the handlers of handle h, which invoke the
\* callbacks cbs; the client becomes c.
Raise(h, ev, cbs, c) ==
  /\ Len(transport) < MaxTransportEvents
  /\ transport' = Append(transport, [h |-> h, ev |-> ev])
  /\ events' = events \o cbs
  /\ clients' = [clients EXCEPT ![handles[h].client] = c]
  /\ PaneCallbacks
  /\ UNCHANGED <<wsClient, sseClient, handles, subscriptionPaused, subscriptionRef,
                 cleared>>
  /\ UNCHANGED <<reqVars, scriptVars, interpVars, runVars>>

\* on.connected of the ws client: the socket is connected and acknowledged,
\* for the first time or after a retry.
WsConnected(h) ==
  /\ Live(h)
  /\ \E c \in {clients[handles[h].client]} :
       /\ c.kind = "ws" /\ c.conn = "connecting" /\ ~c.released
       /\ Raise(h, "connected",
                <<Event(h, "onConnected", "none"), Event(h, "onMessage", "connection")>>,
                [c EXCEPT !.conn = "open"])

\* on.error of the ws client: the socket reported an error.
WsError(h) ==
  /\ Live(h)
  /\ \E c \in {clients[handles[h].client]} :
       /\ c.kind = "ws" /\ c.conn \in {"connecting", "open"} /\ ~c.released
       /\ Raise(h, "error", <<Event(h, "onError", "none")>>, c)

\* on.closed of the ws client: the socket closed.  While the subscription
\* is active the client connects again, unless the closure is fatal or its
\* retries are used up.
WsClosed(h) ==
  /\ Live(h)
  /\ \E c \in {clients[handles[h].client]}, retry \in BOOLEAN :
       /\ c.kind = "ws" /\ c.conn \in {"connecting", "open"}
       /\ retry => (c.retries < MaxRetries /\ ~c.released)
       /\ Raise(h, "closed", <<Event(h, "onMessage", "complete")>>,
                IF retry THEN [c EXCEPT !.conn = "connecting", !.retries = @ + 1]
                ELSE [c EXCEPT !.conn = "closed"])

\* next of the sink: the server sent a result.
SinkNext(h) ==
  /\ Live(h)
  /\ \E c \in {clients[handles[h].client]} :
       /\ ~c.released
       /\ c.kind = "ws" => c.conn = "open"
       /\ Raise(h, "next", <<Event(h, "onMessage", "data")>>,
                IF c.kind = "sse" THEN [c EXCEPT !.conn = "open"] ELSE c)

\* error of the sink: the subscription failed.
SinkError(h) ==
  /\ Live(h)
  /\ \E c \in {clients[handles[h].client]} :
       /\ ~c.released
       /\ Raise(h, "sinkError",
                <<Event(h, "onMessage", "error"), Event(h, "onError", "none")>>,
                [c EXCEPT !.released = TRUE])

\* complete of the sink: the server completed the subscription.
SinkComplete(h) ==
  /\ Live(h)
  /\ \E c \in {clients[handles[h].client]} :
       /\ ~c.released
       /\ c.kind = "ws" => c.conn = "open"
       /\ Raise(h, "complete",
                <<Event(h, "onMessage", "complete"), Event(h, "onComplete", "none")>>,
                [c EXCEPT !.released = TRUE])

TransportEvent ==
  \E h \in 1..Len(handles) :
    \/ WsConnected(h)
    \/ WsError(h)
    \/ WsClosed(h)
    \/ SinkNext(h)
    \/ SinkError(h)
    \/ SinkComplete(h)

PaneNext ==
  \/ HandleConnect
  \/ HandleDisconnect
  \/ TransportEvent
  \/ DisconnectAll

\* Largest number of callbacks before the last arrival in one behaviour of
\* the message log on its own.
MaxCallbacks == 4

\* The callbacks the handlers of the manager invoke for one event: those of
\* on.connected, next, the sink's error, the sink's complete, on.error and
\* on.closed.
CallbackBursts ==
  { <<Event(1, "onConnected", "none"), Event(1, "onMessage", "connection")>>,
    <<Event(1, "onMessage", "data")>>,
    <<Event(1, "onMessage", "error"), Event(1, "onError", "none")>>,
    <<Event(1, "onMessage", "complete"), Event(1, "onComplete", "none")>>,
    <<Event(1, "onError", "none")>>,
    <<Event(1, "onMessage", "complete")>> }

\* The callbacks of one event arrive at the pane.
CallbacksArrive ==
  /\ Len(events) < MaxCallbacks
  /\ \E cbs \in CallbackBursts : events' = events \o cbs
  /\ PaneCallbacks
  /\ UNCHANGED <<clients, wsClient, sseClient, handles, subscriptionPaused,
                 subscriptionRef, transport, cleared>>
  /\ UNCHANGED <<reqVars, scriptVars, interpVars, runVars>>

LogNext ==
  \/ CallbacksArrive
  \/ TogglePaused
  \/ ClearMessages

(***************************************************************************)
(* The script sandbox (src/lib/scripts.ts, lines 1-224).                   *)
(*                                                                         *)
(* A script is [source, compiles, stmts]: its text, whether new Function   *)
(* accepts it, and the statements it runs.  A statement is one call of the *)
(* sandbox API, a throw, or an endless loop; an argument is a value or a   *)
(* read through the API.                                                   *)
(***************************************************************************)
\* Largest number of script runs in one behaviour.
MaxRuns == 2
\* Largest reading of the clock.
MaxClock == 2

Script(source, compiles, stmts) ==
  [source |-> source, compiles |-> compiles, stmts |-> stmts]
Log(args) == [op |-> "log", args |-> args]
EnvSet(name, value) == [op |-> "envSet", name |-> name, value |-> value]
VarsSet(obj) == [op |-> "varsSet", obj |-> obj]
HeadersSet(key, value) == [op |-> "headersSet", key |-> key, value |-> value]
Throw(message) == [op |-> "throw", message |-> message]
Loop == [op |-> "loop"]
EnvGet(name) == [t |-> "envGet", name |-> name]
VarsGet == [t |-> "varsGet"]
ResponseRef == [t |-> "response"]

Scripts ==
  { Script(<<" ">>, TRUE, <<>>),
    Script(<<"s">>, TRUE,
           <<Log(<<JStr(<<"a">>), EnvGet(<<"A">>)>>),
             EnvSet(<<"A">>, JNum(1)),
             HeadersSet(<<"x">>, <<"1">>)>>),
    Script(<<"t">>, TRUE,
           <<VarsSet(JObj(<<[k |-> <<"f">>, v |-> JNum(2)]>>)),
             Log(<<VarsGet, ResponseRef>>),
             Throw(<<"b">>)>>),
    Script(<<"l">>, TRUE, <<Log(<<JStr(<<"a">>)>>), Loop>>),
    Script(<<"(">>, FALSE, <<>>) }

EnvVariableLists == {<<[name |-> <<"A">>, value |-> JStr(<<"x">>)]>>}

\* The scripts and environments of the sandbox on its own: also a script
\* that reads what it has set, and an environment with a variable whose
\* name every object inherits.
SandboxScripts ==
  Scripts \cup
  { Script(<<"e">>, TRUE,
           <<EnvSet(<<"A">>, JNum(2)),
             Log(<<EnvGet(<<"A">>), EnvGet(<<"v", "a", "l", "u", "e", "O", "f">>)>>),
             VarsSet(JObj(<<[k |-> <<"f">>, v |-> JNum(3)]>>)),
             Log(<<VarsGet>>)>>) }

SandboxEnvVariableLists ==
  EnvVariableLists \cup
  { <<[name |-> <<"A">>, value |-> JStr(<<"x">>)],
      [name |-> <<"v", "a", "l", "u", "e", "O", "f">>, value |-> JStr(<<"y">>)]>> }
ScriptTimeouts == {1}
ScriptResponses == {JObj(<<[k |-> <<"k">>, v |-> JNum(1)]>>)}

\* JSON.stringify(v, null, 2), at nesting depth d.
RECURSIVE indentOf(_)
indentOf(d) == IF d = 0 THEN <<>> ELSE <<" ", " ">> \o indentOf(d - 1)

RECURSIVE prettyJson(_, _), prettyMembers(_, _, _)
prettyJson(v, d) ==
  IF v.t = "obj" /\ v.m # <<>>
  THEN <<"{", "\n">> \o prettyMembers(v.m, 1, d + 1) \o <<"\n">> \o indentOf(d) \o <<"}">>
  ELSE JsonStringify(v)

prettyMembers(m, i, d) ==
  indentOf(d) \o <<"\"">> \o m[i].k \o <<"\"", ":", " ">> \o prettyJson(m[i].v, d)
  \o (IF i = Len(m) THEN <<>> ELSE <<",", "\n">> \o prettyMembers(m, i + 1, d))

\* { ...a, ...b }
RECURSIVE spread(_, _, _)
spread(a, b, i) ==
  IF i > Len(b) THEN a ELSE spread(MapSet(a, b[i].k, b[i].v), b, i + 1)

\* The value of a script argument in the worker's current state.
evalArg(e, msg, envO, varsO) ==
  CASE e.t = "envGet" ->
         IF PropertyIn(envO, e.name) THEN PropertyGet(envO, e.name)
         ELSE PropertyGet(msg.env, e.name)
    [] e.t = "varsGet" ->
         JObj(spread(IF msg.vars.t = "obj" THEN msg.vars.m ELSE <<>>, varsO, 1))
    [] e.t = "response" -> msg.response
    [] OTHER -> e

\* One argument of log(...), as text.
logText(v) ==
  IF v.t \in {"obj", "arr", "null"} THEN prettyJson(v, 0)
  ELSE IF v.t = "undefined" THEN Lit("undefined")
  ELSE stringOf(v)

\* args.map(...).join(' ')
RECURSIVE logLine(_, _, _, _, _)
logLine(args, i, msg, envO, varsO) ==
  IF i > Len(args) THEN <<>>
  ELSE (IF i = 1 THEN <<>> ELSE <<" ">>)
       \o logText(evalArg(args[i], msg, envO, varsO))
       \o logLine(args, i + 1, msg, envO, varsO)

\* for (const v of envVariables) env[v.name] = v.value
RECURSIVE envOf(_, _, _)
envOf(result, envVariables, i) ==
  IF i > Len(envVariables) THEN result
  ELSE envOf(MapSet(result, envVariables[i].name, envVariables[i].value),
             envVariables, i + 1)

\* vars = JSON.parse(variables), {} when it throws.
scriptVarsOf(variables) ==
  IF JsonParse(variables).ok THEN JsonParse(variables).val ELSE EmptyObj

\* The message runPreRequestScript / runPostRequestScript posts.  (run is
\* the index of the run, kept to tell the runs apart; it is not sent.)
executeMessage(run, script, envVariables, variables, headers, response, timeout) ==
  [run |-> run,
   script |-> script,
   env |-> envOf(<<>>, envVariables, 1),
   vars |-> scriptVarsOf(variables),
   headers |-> enabledHeaders(<<>>, headers, 1),
   response |-> response,
   timeout |-> timeout]

EmptySuccess ==
  [success |-> TRUE, logs |-> <<>>, envOverrides |-> <<>>, varsOverrides |-> <<>>,
   headersOverrides |-> <<>>, error |-> Undefined]

\* The message the worker posts: the current logs and overrides.
scriptResult(success, error) ==
  [success |-> success, logs |-> logs, envOverrides |-> envOverrides,
   varsOverrides |-> varsOverrides, headersOverrides |-> headersOverrides,
   error |-> error]

NoMessage == [run |-> 0]

ScriptInit ==
  /\ runs = <<>>
  /\ inbox = <<>>
  /\ outbox = <<>>
  /\ wpc = "idle"
  /\ cur = NoMessage
  /\ ip = 0
  /\ logs = <<>>
  /\ envOverrides = <<>>
  /\ varsOverrides = <<>>
  /\ headersOverrides = <<>>
  /\ wtimer = "none"
  /\ deadline = 0
  /\ clock = 0
  /\ spin = FALSE
  /\ overdue = {}

\* runPreRequestScript (response Undefined) or runPostRequestScript: a blank
\* script resolves at once; otherwise a message listener is added to the
\* worker and the execute message is posted.
RunScript ==
  /\ Len(runs) < MaxRuns
  /\ \E script \in SandboxScripts, envVariables \in SandboxEnvVariableLists,
        variables \in {<<"{", "\"", "f", "\"", ":", "1", "}">>},
        headers \in HeaderLists, response \in ScriptResponses \cup {Undefined},
        timeout \in ScriptTimeouts :
       IF trim(script.source) = <<>>
       THEN /\ runs' = Append(runs, [state |-> "resolved", result |-> EmptySuccess,
                                     message |-> NoMessage])
            /\ UNCHANGED inbox
       ELSE /\ \E msg \in {executeMessage(Len(runs) + 1, script, envVariables,
                                            variables, headers, response, timeout)} :
                 /\ runs' = Append(runs, [state |-> "pending", result |-> Undefined,
                                          message |-> msg])
                 /\ inbox' = Append(inbox, msg)
  /\ UNCHANGED <<outbox, wpc, cur, ip, logs, envOverrides, varsOverrides,
                 headersOverrides, wtimer, deadline, clock, spin, overdue>>
  /\ UNCHANGED <<reqVars, subVars, interpVars, runVars, paneVars>>

\* Mutant of WorkerStart: the log buffer and the override maps are not
\* reset.
WorkerStartKeepsState ==
  /\ wpc = "idle"
  /\ inbox # <<>>
  /\ cur' = Head(inbox)
  /\ inbox' = Tail(inbox)
  /\ wtimer' = "pending"
  /\ deadline' = clock + Head(inbox).timeout
  /\ wpc' = "running"
  /\ ip' = 1
  /\ UNCHANGED <<logs, envOverrides, varsOverrides, headersOverrides>>
  /\ UNCHANGED <<runs, outbox, clock, spin, overdue>>
  /\ UNCHANGED <<reqVars, subVars, interpVars, runVars, paneVars>>

\* self.onmessage, up to the call of the script: the globals are reset and
\* the timeout timer is started.
WorkerStart ==
  /\ wpc = "idle"
  /\ inbox # <<>>
  /\ cur' = Head(inbox)
  /\ inbox' = Tail(inbox)
  /\ logs' = <<>>
  /\ envOverrides' = <<>>
  /\ varsOverrides' = <<>>
  /\ headersOverrides' = Head(inbox).headers
  /\ wtimer' = "pending"
  /\ deadline' = clock + Head(inbox).timeout
  /\ wpc' = "running"
  /\ ip' = 1
  /\ UNCHANGED <<runs, outbox, clock, spin, overdue>>
  /\ UNCHANGED <<reqVars, subVars, interpVars, runVars, paneVars>>

\* The script calls the sandbox API once.
ScriptStep ==
  /\ wpc = "running"
  /\ cur.script.compiles
  /\ ip <= Len(cur.script.stmts)
  /\ \E st \in {cur.script.stmts[ip]} :
       /\ st.op \in {"log", "envSet", "varsSet", "headersSet"}
       /\ logs' = IF st.op = "log"
                  THEN Append(logs, logLine(st.args, 1, cur, envOverrides, varsOverrides))
                  ELSE logs
       /\ envOverrides' = IF st.op = "envSet"
                          THEN MapSet(envOverrides, st.name,
                                      evalArg(st.value, cur, envOverrides, varsOverrides))
                          ELSE envOverrides
       /\ varsOverrides' = IF st.op = "varsSet"
                           THEN spread(varsOverrides, st.obj.m, 1)
                           ELSE varsOverrides
       /\ headersOverrides' = IF st.op = "headersSet"
                              THEN MapSet(headersOverrides, st.key, st.value)
                              ELSE headersOverrides
  /\ ip' = ip + 1
  /\ UNCHANGED <<runs, inbox, outbox, wpc, cur, wtimer, deadline, clock, spin, overdue>>
  /\ UNCHANGED <<reqVars, subVars, interpVars, runVars, paneVars>>

\* The script goes round an endless loop once more: it never returns, and
\* the worker runs nothing else meanwhile.
ScriptSpin ==
  /\ wpc = "running"
  /\ cur.script.compiles
  /\ ip <= Len(cur.script.stmts)
  /\ cur.script.stmts[ip].op = "loop"
  /\ spin' = ~spin
  /\ UNCHANGED <<runs, inbox, outbox, wpc, cur, ip, logs, envOverrides, varsOverrides,
                 headersOverrides, wtimer, deadline, clock, overdue>>
  /\ UNCHANGED <<reqVars, subVars, interpVars, runVars, paneVars>>

\* The script returns: the timer is cleared and the success result posted.
ScriptReturn ==
  /\ wpc = "running"
  /\ cur.script.compiles
  /\ ip > Len(cur.script.stmts)
  /\ wtimer' = "cleared"
  /\ outbox' = Append(outbox, scriptResult(TRUE, Undefined))
  /\ wpc' = "idle"
  /\ UNCHANGED <<runs, inbox, cur, ip, logs, envOverrides, varsOverrides,
                 headersOverrides, deadline, clock, spin, overdue>>
  /\ UNCHANGED <<reqVars, subVars, interpVars, runVars, paneVars>>

\* Mutant of ScriptThrow: the failure result carries no logs.
ScriptThrowDropsLogs ==
  /\ wpc = "running"
  /\ \/ ~cur.script.compiles
     \/ /\ ip <= Len(cur.script.stmts)
        /\ cur.script.stmts[ip].op = "throw"
  /\ wtimer' = "cleared"
  /\ outbox' = Append(outbox,
                 [scriptResult(FALSE,
                    IF cur.script.compiles THEN JStr(cur.script.stmts[ip].message)
                    ELSE JStr(Lit("Unexpected token")))
                  EXCEPT !.logs = <<>>])
  /\ wpc' = "idle"
  /\ UNCHANGED <<runs, inbox, cur, ip, logs, envOverrides, varsOverrides,
                 headersOverrides, deadline, clock, spin, overdue>>
  /\ UNCHANGED <<reqVars, subVars, interpVars, runVars, paneVars>>

\* new Function rejects the script, or the script throws: the timer is
\* cleared and the failure result posted.
ScriptThrow ==
  /\ wpc = "running"
  /\ \/ ~cur.script.compiles
     \/ /\ ip <= Len(cur.script.stmts)
        /\ cur.script.stmts[ip].op = "throw"
  /\ wtimer' = "cleared"
  /\ outbox' = Append(outbox,
                 scriptResult(FALSE,
                   IF cur.script.compiles THEN JStr(cur.script.stmts[ip].message)
                   ELSE JStr(Lit("Unexpected token"))))
  /\ wpc' = "idle"
  /\ UNCHANGED <<runs, inbox, cur, ip, logs, envOverrides, varsOverrides,
                 headersOverrides, deadline, clock, spin, overdue>>
  /\ UNCHANGED <<reqVars, subVars, interpVars, runVars, paneVars>>

\* The callback of the worker's timeout timer: it posts the timeout result.
\* It is a task of the worker, so it runs only while the worker is idle and
\* the timer is still pending and due.  The timer is pending only from
\* WorkerStart to ScriptReturn or ScriptThrow, all within one task of the
\* worker, so the callback is never enabled and is left out of ScriptNext.
WorkerTimeout ==
  /\ wpc = "idle"
  /\ wtimer = "pending"
  /\ clock >= deadline
  /\ wtimer' = "cleared"
  /\ outbox' = Append(outbox, scriptResult(FALSE, JStr(Lit("Script execution timed out"))))
  /\ UNCHANGED <<runs, inbox, wpc, cur, ip, logs, envOverrides, varsOverrides,
                 headersOverrides, deadline, clock, spin, overdue>>
  /\ UNCHANGED <<reqVars, subVars, interpVars, runVars, paneVars>>

\* Time passes; a run whose script was called and is still running when its
\* timer falls due is overdue.
Tick ==
  /\ clock < MaxClock
  /\ clock' = clock + 1
  /\ overdue' = IF wpc = "running" /\ cur.script.compiles /\ clock + 1 >= deadline
                THEN overdue \cup {cur.run} ELSE overdue
  /\ UNCHANGED <<runs, inbox, outbox, wpc, cur, ip, logs, envOverrides, varsOverrides,
                 headersOverrides, wtimer, deadline, spin>>
  /\ UNCHANGED <<reqVars, subVars, interpVars, runVars, paneVars>>

\* A result message reaches the main thread: every listener still attached
\* (one per pending run) is removed and resolves its promise with the data.
Deliver ==
  /\ outbox # <<>>
  /\ runs' = [i \in 1..Len(runs) |->
                IF runs[i].state = "pending"
                THEN [runs[i] EXCEPT !.state = "resolved", !.result = Head(outbox)]
                ELSE runs[i]]
  /\ outbox' = Tail(outbox)
  /\ UNCHANGED <<inbox, wpc, cur, ip, logs, envOverrides, varsOverrides,
                 headersOverrides, wtimer, deadline, clock, spin, overdue>>
  /\ UNCHANGED <<reqVars, subVars, interpVars, runVars, paneVars>>

ScriptNext ==
  \/ RunScript
  \/ WorkerStart
  \/ ScriptStep
  \/ ScriptSpin
  \/ ScriptReturn
  \/ ScriptThrow
  \/ Tick
  \/ Deliver

\* What the log buffer and the override maps hold when the script of an
\* execute message, run on its own from the reset state, has made its first
\* n API calls: a function of the message alone.
RECURSIVE OwnGlobalsAfter(_, _)
OwnGlobalsAfter(msg, n) ==
  IF n = 0
  THEN [logs |-> <<>>, envOverrides |-> <<>>, varsOverrides |-> <<>>,
        headersOverrides |-> msg.headers]
  ELSE LET g == OwnGlobalsAfter(msg, n - 1)
           st == msg.script.stmts[n]
       IN CASE st.op = "log" ->
                 [g EXCEPT !.logs =
                    Append(g.logs, logLine(st.args, 1, msg, g.envOverrides,
                                           g.varsOverrides))]
            [] st.op = "envSet" ->
                 [g EXCEPT !.envOverrides =
                    MapSet(g.envOverrides, st.name,
                           evalArg(st.value, msg, g.envOverrides, g.varsOverrides))]
            [] st.op = "varsSet" ->
                 [g EXCEPT !.varsOverrides = spread(g.varsOverrides, st.obj.m, 1)]
            [] st.op = "headersSet" ->
                 [g EXCEPT !.headersOverrides =
                    MapSet(g.headersOverrides, st.key, st.value)]
            [] OTHER -> g

\* The statements of a script that run before it ends (by returning or
\* throwing) or loops.
StepsRun(script) ==
  IF ~script.compiles THEN 0
  ELSE LET stops == {j \in 1..Len(script.stmts) :
                       script.stmts[j].op \in {"throw", "loop"}}
       IN IF stops = {} THEN Len(script.stmts) ELSE Min(stops) - 1

\* The result of the run of an execute message on its own.
OwnResult(msg) ==
  LET n == StepsRun(msg.script)
      g == OwnGlobalsAfter(msg, n)
      returned == msg.script.compiles /\ n = Len(msg.script.stmts)
  IN [success |-> returned,
      logs |-> g.logs,
      envOverrides |-> g.envOverrides,
      varsOverrides |-> g.varsOverrides,
      headersOverrides |-> g.headersOverrides,
      error |-> IF returned THEN Undefined
                ELSE IF ~msg.script.compiles THEN JStr(Lit("Unexpected token"))
                ELSE JStr(msg.script.stmts[n + 1].message)]

(***************************************************************************)
(* interpolateString as a function (src/lib/interpolation.ts, lines 7-26): *)
(* it is applied to a template, then to its own output.                    *)
(***************************************************************************)
\* Largest number of applications in one behaviour.
MaxPasses == 2

\* The pieces the templates are made of: text, placeholders of names the
\* contexts define or not, with and without spaces, and unfinished ones.
TemplatePieces ==
  { <<"a">>,
    <<"{", "{", "U", "}", "}">>,
    <<"{", "{", " ", "U", " ", "}", "}">>,
    <<"{", "{", "X", "}", "}">>,
    <<"{", "{", "W", "}", "}">>,
    <<"{", "{", "V", "}", "}">>,
    <<"{", "{", "v", "a", "l", "u", "e", "O", "f", "}", "}">>,
    <<"{", "{", "}", "}">>,
    <<"{", "{">> }

TemplateTexts ==
  {<<>>} \cup TemplatePieces \cup {p \o q : p \in TemplatePieces, q \in TemplatePieces}

\* for (const v of envVariables) variables[v.name] = v.value
buildInterpolationContext(envVariables) ==
  [variables |-> envOf(<<>>, envVariables, 1)]

InterpolationContexts ==
  Contexts \cup
  { buildInterpolationContext(
      <<[name |-> <<"W">>, value |-> JStr(<<"{", "{", "U", "}", "}">>)],
        [name |-> <<"U">>, value |-> JStr(<<"b">>)]>>) }

InterpolationAtRest ==
  /\ itemplate = <<>>
  /\ icontext = [variables |-> <<>>]
  /\ ioutputs = <<>>
  /\ inames = <<>>

InterpolationInit ==
  /\ itemplate \in TemplateTexts
  /\ icontext \in InterpolationContexts
  /\ ioutputs = <<>>
  /\ inames = <<>>

\* What the next application takes: the template, then the last output.
PassInput(k) == IF k = 1 THEN itemplate ELSE ioutputs[k - 1]

\* interpolateString(input, context)
Interpolate ==
  /\ Len(ioutputs) < MaxPasses
  /\ ioutputs' = Append(ioutputs,
                    interpolateString(PassInput(Len(ioutputs) + 1), icontext))
  /\ UNCHANGED <<itemplate, icontext, inames>>
  /\ UNCHANGED <<reqVars, subVars, scriptVars, runVars, paneVars>>

\* Mutant of extractFrom: a name is pushed each time it occurs.
RECURSIVE extractFromRepeats(_, _, _)
extractFromRepeats(s, i, names) ==
  IF i > Len(s) THEN names
  ELSE IF matchEnd(s, i) = 0 THEN extractFromRepeats(s, i + 1, names)
  ELSE extractFromRepeats(s, matchEnd(s, i) + 1,
                          Append(names, trim(SubSeq(s, i + 2, matchEnd(s, i) - 2))))

\* The loop of extractVariableNames (src/lib/interpolation.ts, lines 86-91):
\* regex.exec finds the next match at or after i; its trimmed name is
\* pushed unless names includes it, and the search goes on after the match.
RECURSIVE extractFrom(_, _, _)
extractFrom(s, i, names) ==
  IF i > Len(s) THEN names
  ELSE IF matchEnd(s, i) = 0 THEN extractFrom(s, i + 1, names)
  ELSE LET name == trim(SubSeq(s, i + 2, matchEnd(s, i) - 2))
       IN extractFrom(s, matchEnd(s, i) + 1,
                      IF \E k \in 1..Len(names) : names[k] = name
                      THEN names ELSE Append(names, name))

extractVariableNames(template) == extractFrom(template, 1, <<>>)

\* extractVariableNames(template), called once.
ExtractNames ==
  /\ inames = <<>>
  /\ inames' = <<extractVariableNames(itemplate)>>
  /\ UNCHANGED <<itemplate, icontext, ioutputs>>
  /\ UNCHANGED <<reqVars, subVars, scriptVars, runVars, paneVars>>

InterpolationNext ==
  \/ Interpolate
  \/ ExtractNames

(***************************************************************************)
(* One run of the request bar (src/components/editor/RequestBar.tsx,      *)
(* handleRun, lines 45-176): the pre-request script, the request, the     *)
(* post-request script, the stored result and the history entry.          *)
(***************************************************************************)
\* No script: the empty text, which handleRun skips.
NoScript == Script(<<>>, TRUE, <<>>)

PreRequestScripts ==
  Scripts \cup
  { NoScript,
    Script(<<"v">>, TRUE,
           <<VarsSet(JObj(<<[k |-> <<"f">>, v |-> JNum(2)]>>)),
             EnvSet(<<"B">>, JStr(<<"y">>)),
             HeadersSet(<<"k">>, <<"2">>)>>) }

PostRequestScripts ==
  {NoScript} \cup {s \in Scripts : s.source \in {<<"s">>, <<"t">>}}

RunEndpoints ==
  { <<"a", ":", "x">>,
    <<"{", "{", "A", "}", "}", ":", "x">>,
    <<"n">> }

\* What a run starts from: the active tab, the workspace's default headers
\* followed by the tab's, and the variables of the active environment.
RunInputs ==
  [endpoint : RunEndpoints,
   preRequestScript : PreRequestScripts,
   postRequestScript : PostRequestScripts,
   variables : {<<"{", "\"", "f", "\"", ":", "1", "}">>},
   headers : HeaderLists,
   envVars : EnvVariableLists \cup {<<>>}]

NoRun == [endpoint |-> <<>>]
NoRequest == [endpoint |-> <<>>]

\* The script ends, by returning or by throwing; a script in an endless
\* loop does not, and its run never resolves.
Terminates(script) ==
  \/ trim(script.source) = <<>>
  \/ ~script.compiles
  \/ \A j \in 1..Len(script.stmts) :
       script.stmts[j].op = "loop" =>
         \E i \in 1..(j - 1) : script.stmts[i].op = "throw"

\* What the promise of runPreRequestScript (response Undefined) or
\* runPostRequestScript resolves with, the worker being otherwise idle.
runScript(script, envVariables, variables, headers, response) ==
  IF trim(script.source) = <<>> THEN EmptySuccess
  ELSE OwnResult(executeMessage(1, script, envVariables, variables, headers,
                                response, 1))

\* envVars.map(v => v.name in envOverrides ? {...v, value: envOverrides[v.name]} : v)
applyEnvOverrides(envVars, overrides) ==
  [i \in 1..Len(envVars) |->
     IF PropertyIn(overrides, envVars[i].name)
     THEN [envVars[i] EXCEPT !.value = PropertyGet(overrides, envVars[i].name)]
     ELSE envVars[i]]

\* The loop over Object.entries(headersOverrides), from entry i: the first
\* header of that key takes the value, else an enabled header is added.
RECURSIVE applyHeaderOverrides(_, _, _)
applyHeaderOverrides(allHeaders, overrides, i) ==
  IF i > Len(overrides) THEN allHeaders
  ELSE LET existing == {j \in 1..Len(allHeaders) : allHeaders[j].key = overrides[i].k}
       IN applyHeaderOverrides(
            IF existing # {}
            THEN [allHeaders EXCEPT ![Min(existing)].value = overrides[i].v]
            ELSE Append(allHeaders, Header(overrides[i].k, overrides[i].v, TRUE)),
            overrides, i + 1)

\* The options handleRun passes to executeRequest.
runOptions(run, envVars, allHeaders) ==
  [endpoint |-> interpolateString(run.endpoint, buildInterpolationContext(envVars)),
   query |-> <<"q">>,
   variables |-> run.variables,
   operationName |-> Undefined,
   headers |-> allHeaders,
   auth |-> [mode |-> "none", bearer |-> Undefined, basic |-> Undefined,
             apiKey |-> Undefined],
   httpMethod |-> "POST",
   fileMappings |-> <<>>,
   useProxy |-> FALSE,
   context |-> buildInterpolationContext(envVars)]

\* The results executeRequest can return for the options: the failure
\* result when it throws before the call, else whatever the call ends in.
ExecuteRequestResults(o) ==
  IF prepareRequest(o).built.threw
  THEN {catchClause(prepareRequest(o).built.error).result}
  ELSE {successResult(r, r.body) : r \in Responses}
       \cup {catchClause(Error(Lit("Failed to fetch"))).result}

\* The result handleRun stores when the pre-request script failed.
preScriptFailure(error) ==
  [response |-> JNull, headers |-> <<>>, stats |-> JNull,
   error |-> JStr(Lit("Pre-request script error: ") \o stringOf(error))]

\* The entry handleRun adds to the history.
historyEntry(run, o, result) ==
  [endpoint |-> o.endpoint, query |-> o.query, variables |-> run.variables,
   operationName |-> JNull,
   status |-> IF result.stats = JNull THEN 0 ELSE result.stats.status]

HandleRunInit ==
  /\ hpc = "idle"
  /\ hrun = NoRun
  /\ hreq = NoRequest
  /\ hresult = Undefined
  /\ requestResult = Undefined
  /\ requestLoading = FALSE
  /\ scriptLogs = <<>>
  /\ history = <<>>
  /\ hcaught = Undefined

\* handleRun up to its first await: the script log is cleared; without a
\* pre-request script executeRequest is called at once.
HandleRun ==
  /\ hpc = "idle"
  /\ \E run \in RunInputs :
       /\ hrun' = run
       /\ IF run.preRequestScript.source = <<>>
          THEN /\ hpc' = "request"
               /\ hreq' = runOptions(run, run.envVars, run.headers)
          ELSE /\ hpc' = "preScript"
               /\ hreq' = hreq
  /\ requestLoading' = TRUE
  /\ scriptLogs' = <<>>
  /\ UNCHANGED <<hresult, requestResult, history, hcaught>>
  /\ UNCHANGED <<reqVars, subVars, scriptVars, interpVars, paneVars>>

\* Mutant of PreScriptResolves: a failed pre-request script is logged and
\* the run goes on.
PreScriptResolvesGoesOn ==
  /\ hpc = "preScript"
  /\ Terminates(hrun.preRequestScript)
  /\ \E r \in {runScript(hrun.preRequestScript, hrun.envVars, hrun.variables,
                         hrun.headers, Undefined)} :
       /\ scriptLogs' = scriptLogs \o r.logs
       /\ hpc' = "request"
       /\ hreq' = runOptions(hrun, applyEnvOverrides(hrun.envVars, r.envOverrides),
                             applyHeaderOverrides(hrun.headers, r.headersOverrides, 1))
       /\ UNCHANGED <<requestResult, requestLoading>>
  /\ UNCHANGED <<hrun, hresult, history, hcaught>>
  /\ UNCHANGED <<reqVars, subVars, scriptVars, interpVars, paneVars>>

\* The pre-request script's run resolves: its logs are added; on failure
\* the error result is stored and the run ends; else the overrides are
\* applied and executeRequest is called.
PreScriptResolves ==
  /\ hpc = "preScript"
  /\ Terminates(hrun.preRequestScript)
  /\ \E r \in {runScript(hrun.preRequestScript, hrun.envVars, hrun.variables,
                         hrun.headers, Undefined)} :
       IF ~r.success
       THEN /\ scriptLogs' = scriptLogs \o r.logs
                               \o <<Lit("Error: ") \o stringOf(r.error)>>
            /\ requestResult' = preScriptFailure(r.error)
            /\ requestLoading' = FALSE
            /\ hpc' = "done"
            /\ hreq' = hreq
       ELSE /\ scriptLogs' = scriptLogs \o r.logs
            /\ hpc' = "request"
            /\ hreq' = runOptions(hrun, applyEnvOverrides(hrun.envVars, r.envOverrides),
                                  applyHeaderOverrides(hrun.headers, r.headersOverrides, 1))
            /\ UNCHANGED <<requestResult, requestLoading>>
  /\ UNCHANGED <<hrun, hresult, history, hcaught>>
  /\ UNCHANGED <<reqVars, subVars, scriptVars, interpVars, paneVars>>

\* executeRequest returns: with a post-request script and a truthy response
\* the script is run; else the result is stored and addHistoryEntry called.
RequestResolves ==
  /\ hpc = "request"
  /\ \E result \in ExecuteRequestResults(hreq) :
       /\ hresult' = result
       /\ IF hrun.postRequestScript.source # <<>> /\ IsTruthy(result.response)
          THEN /\ hpc' = "postScript"
               /\ UNCHANGED requestResult
          ELSE /\ hpc' = "history"
               /\ requestResult' = result
  /\ UNCHANGED <<hrun, hreq, scriptLogs, requestLoading, history, hcaught>>
  /\ UNCHANGED <<reqVars, subVars, scriptVars, interpVars, paneVars>>

\* The post-request script's run resolves: its logs are added, a failure is
\* logged, the result of the request is stored and addHistoryEntry called.
PostScriptResolves ==
  /\ hpc = "postScript"
  /\ Terminates(hrun.postRequestScript)
  /\ \E r \in {runScript(hrun.postRequestScript,
                         [i \in 1..Len(hrun.envVars) |->
                            [hrun.envVars[i] EXCEPT !.value =
                               MapGet(hreq.context.variables, hrun.envVars[i].name)]],
                         hrun.variables, hreq.headers, hresult.response)} :
       scriptLogs' = scriptLogs \o r.logs
                       \o (IF r.success THEN <<>>
                           ELSE <<Lit("Post-request script error: ") \o stringOf(r.error)>>)
  /\ requestResult' = hresult
  /\ hpc' = "history"
  /\ UNCHANGED <<hrun, hreq, hresult, requestLoading, history, hcaught>>
  /\ UNCHANGED <<reqVars, subVars, scriptVars, interpVars, paneVars>>

\* addHistoryEntry resolves (db.history.add stored the entry): the entry is
\* put in the store's history, and the finally clause ends the run.
HistoryResolves ==
  /\ hpc = "history"
  /\ history' = Append(history, historyEntry(hrun, hreq, hresult))
  /\ requestLoading' = FALSE
  /\ hpc' = "done"
  /\ UNCHANGED <<hrun, hreq, hresult, requestResult, scriptLogs, hcaught>>
  /\ UNCHANGED <<reqVars, subVars, scriptVars, interpVars, paneVars>>

\* The result handleRun's catch clause stores for the exception caught.
caughtResult(error) ==
  [response |-> JNull, headers |-> <<>>, stats |-> JNull,
   error |-> IF error.isError THEN JStr(error.message)
             ELSE JStr(Lit("Request failed"))]

\* addHistoryEntry rejects (db.history.add failed, the database being
\* closed, blocked or full): the catch clause stores its result over the
\* one of the request, and the finally clause ends the run.
HistoryRejects ==
  /\ hpc = "history"
  /\ hcaught' = Error(Lit("QuotaExceededError"))
  /\ requestResult' = caughtResult(hcaught')
  /\ requestLoading' = FALSE
  /\ hpc' = "done"
  /\ UNCHANGED <<hrun, hreq, hresult, scriptLogs, history>>
  /\ UNCHANGED <<reqVars, subVars, scriptVars, interpVars, paneVars>>

HandleRunNext ==
  \/ HandleRun
  \/ PreScriptResolves
  \/ RequestResolves
  \/ PostScriptResolves
  \/ HistoryResolves
  \/ HistoryRejects

(***************************************************************************)
(* Specifications: one per component, the others at rest.                  *)
(***************************************************************************)
\* An invocation that never starts: the request executor at rest.
RequestAtRest ==
  /\ RequestInit
  /\ options = [endpoint |-> <<>>, query |-> <<"q">>, variables |-> <<>>,
                operationName |-> Undefined, headers |-> <<>>,
                auth |-> [mode |-> "none", bearer |-> [token |-> <<"s">>],
                          basic |-> Undefined, apiKey |-> Undefined],
                httpMethod |-> "POST", fileMappings |-> <<>>,
                useProxy |-> FALSE, context |-> [variables |-> <<>>]]

\* The request executor: one executeRequest invocation on any options.
Init ==
  RequestInit /\ SubInit /\ ScriptInit /\ InterpolationAtRest /\ HandleRunInit /\ PaneInit
Next == RequestNext
Spec == Init /\ [][Next]_vars

\* The subscription manager under any sequence of subscribe, unsubscribe
\* and disconnectAll calls.
SubscriptionInit ==
  RequestAtRest /\ SubInit /\ ScriptInit /\ InterpolationAtRest /\ HandleRunInit /\ PaneInit
SubscriptionSpec == SubscriptionInit /\ [][SubNext]_vars

\* The script sandbox: runs started by the main thread, one shared worker.
SandboxInit ==
  RequestAtRest /\ SubInit /\ ScriptInit /\ InterpolationAtRest /\ HandleRunInit /\ PaneInit
SandboxSpec == SandboxInit /\ [][ScriptNext]_vars

\* interpolateString on any template and context.
InterpolationSpecInit ==
  RequestAtRest /\ SubInit /\ ScriptInit /\ InterpolationInit /\ HandleRunInit /\ PaneInit
InterpolationSpec == InterpolationSpecInit /\ [][InterpolationNext]_vars

\* The subscription pane: connects and disconnects, with the transports
\* raising events, and the unmount's disconnectAll.
PaneSpecInit ==
  RequestAtRest /\ SubInit /\ ScriptInit /\ InterpolationAtRest /\ HandleRunInit /\ PaneInit
PaneSpec == PaneSpecInit /\ [][PaneNext]_vars

\* The message log of the store: callbacks arriving in any order, the log
\* paused, resumed and cleared.
LogSpec == PaneSpecInit /\ [][LogNext]_vars

\* One run of the request bar on any tab, headers and environment.
HandleRunSpecInit ==
  RequestAtRest /\ SubInit /\ ScriptInit /\ InterpolationAtRest /\ HandleRunInit /\ PaneInit
HandleRunSpec == HandleRunSpecInit /\ [][HandleRunNext]_vars

\* handleRun resumes: the promise it awaits settles and the run moves on.
\* A script's run resolves once its script has ended, executeRequest
\* returns, and the history write settles.  Stated by its effect on hpc, it
\* is enabled exactly when PreScriptResolves, RequestResolves,
\* PostScriptResolves or HistoryResolves \/ HistoryRejects is, and every
\* step of it in a run is a step of one of these.
Resumes ==
  /\ \/ hpc = "preScript" /\ Terminates(hrun.preRequestScript)
     \/ hpc = "request"
     \/ hpc = "postScript" /\ Terminates(hrun.postRequestScript)
     \/ hpc = "history"
  /\ hpc' \in {"request", "postScript", "history", "done"} \ {hpc}

\* One run of the request bar, with what the code's scheduling ensures: a
\* settled promise resumes handleRun.
HandleRunFairSpec ==
  /\ HandleRunSpecInit
  /\ [][HandleRunNext]_vars
  /\ WF_hpc(Resumes)

(***************************************************************************)
(* Properties.                                                            *)
(***************************************************************************)
\* The invocation ended without a usable response: no call was issued, the
\* call failed or was aborted, or the body could not be read.
FailurePath ==
  /\ pc = "done"
  /\ \/ calls = <<>>
     \/ net \in {"failed", "aborted"}
     \/ bodyState = "failed"

\* C1: executeRequest always settles by returning a RequestResult, never by
\* throwing or rejecting; on every failure path (invalid endpoint, request
\* building throws, fetch rejects, fetch is aborted, reading the body fails)
\* the result has error non-null, response null, no headers, status 0,
\* statusText 'Error' and size 0.
C1_FailuresAreResults ==
  /\ outcome.kind # "rejected"
  /\ pc = "done" => outcome.kind = "returned"
  /\ FailurePath =>
       /\ outcome.result.error # JNull
       /\ outcome.result.response = JNull
       /\ outcome.result.headers = <<>>
       /\ outcome.result.stats.status = 0
       /\ outcome.result.stats.statusText = Lit("Error")
       /\ outcome.result.stats.size = 0

\* C1 witness: a call was issued, then aborted by the timer, and the
\* invocation returned a result.
C1_Witness ==
  /\ pc = "done" /\ net = "aborted" /\ outcome.kind = "returned"

\* C2 (as claimed): after any sequence of subscribe, handle.unsubscribe and
\* disconnectAll calls, each transport kind (ws, sse) has at most one client
\* that was created and is not yet disposed.
C2_OneConnectionPerKind ==
  \A kind \in {"ws", "sse"} :
    Cardinality({c \in 1..Len(clients) :
                   clients[c].kind = kind /\ ~clients[c].disposed}) <= 1

\* C3 (as claimed): once unsubscribe() of a handle has been called, the
\* client created by the subscribe call that returned the handle is
\* disposed, whatever other subscribe calls happened in between.
C3_UnsubscribeDisposesOwnClient ==
  \A h \in 1..Len(handles) :
    (handles[h].calls >= 1 /\ handles[h].client # 0) =>
      clients[handles[h].client].disposed

\* C4 (as claimed): a run whose script was still running when its timeout
\* fell due, once resolved, has success = false and the error
\* 'Script execution timed out'.
C4_OverdueRunResolvesAsTimeout ==
  \A r \in overdue :
    runs[r].state = "resolved" =>
      /\ runs[r].result.success = FALSE
      /\ runs[r].result.error = JStr(Lit("Script execution timed out"))

\* C5 (as claimed): whenever a file mapping has a bound file and the endpoint
\* is valid, the multipart encoding is used, whatever the httpMethod: the
\* encoding selected is multipart and every call issued carries a form body.
C5_FilesAlwaysMultipart ==
  (pc # "idle" /\ encoding # "none" /\ hasBoundFile(options.fileMappings)) =>
    /\ encoding = "multipart"
    /\ \A i \in 1..Len(calls) : calls[i].body.t = "form"

\* C6 (as claimed): in every returned RequestResult exactly one of response
\* and error is non-null.
C6_ExactlyOneOfResponseError ==
  outcome.kind = "returned" =>
    (outcome.result.response # JNull) # (outcome.result.error # JNull)

\* C7: if the interpolated endpoint is empty or does not parse as a URL, no
\* HTTP call is issued and the result is error 'Invalid endpoint URL',
\* response null, status 0, statusText 'Error'.
C7_InvalidEndpointFailsFast ==
  LET endpoint == interpolateString(options.endpoint, options.context)
  IN (pc # "idle" /\ (endpoint = <<>> \/ ~urlParses(endpoint))) =>
       /\ calls = <<>>
       /\ net = "none"
       /\ pc = "done"
       /\ outcome.kind = "returned"
       /\ outcome.result.error = JStr(Lit("Invalid endpoint URL"))
       /\ outcome.result.response = JNull
       /\ outcome.result.stats.status = 0
       /\ outcome.result.stats.statusText = Lit("Error")

\* C7 witness: the endpoint is a placeholder the context does not define, so
\* the interpolated text is not a URL, and the invocation has returned.
C7_Witness ==
  /\ pc = "done"
  /\ options.endpoint = <<"{", "{", "U", "}", "}", "/", "g">>
  /\ options.context.variables = <<>>

\* C8: when the call completed and the body that was read is not valid
\* JSON, the result has error null, a response whose errors list holds
\* exactly one entry, with message 'Failed to parse response as JSON', and
\* the status and statusText of the HTTP response.
C8_UnparsableBodyIsSuccess ==
  (pc = "done" /\ bodyState = "read" /\ ~JsonParse(httpResponse.body).ok) =>
    /\ outcome.kind = "returned"
    /\ outcome.result.error = JNull
    /\ outcome.result.response.t = "obj"
    /\ MapKeys(outcome.result.response.m) = {Lit("errors")}
    /\ LET errors == ObjGet(outcome.result.response, Lit("errors"))
       IN /\ errors.t = "arr"
          /\ Len(errors.a) = 1
          /\ errors.a[1] =
               JObj(<<[k |-> Lit("message"),
                       v |-> JStr(Lit("Failed to parse response as JSON"))]>>)
    /\ outcome.result.stats.status = httpResponse.status
    /\ outcome.result.stats.statusText = httpResponse.statusText

\* C8 witness: a 500 answer with an HTML body has been read.
C8_Witness ==
  /\ pc = "done" /\ bodyState = "read"
  /\ httpResponse.status = 500 /\ httpResponse.body = <<"<">>

\* C9: one invocation issues at most one HTTP call: exactly one when the
\* endpoint is valid and the request is built without throwing, none
\* otherwise; no later step (failure, abort) issues another.
C9_AtMostOneCall ==
  /\ Len(calls) <= 1
  /\ pc # "idle" =>
       (Len(calls) = 1) = ~prepareRequest(options).built.threw

\* C9 witness: the one call failed on the network and the invocation is over.
C9_Witness ==
  /\ pc = "done" /\ net = "failed" /\ Len(calls) = 1

\* C10: when the timeout timer fires while the call is in flight, the call's
\* abort signal is aborted and the call ends aborted; the result returned is
\* a failure (error non-null, response null, status 0) that differs from the
\* result of a network failure in nothing but the error text.
C10_TimeoutAbortsAsGenericFailure ==
  /\ timer = "fired" => (signalAborted /\ net = "aborted")
  /\ (pc = "done" /\ timer = "fired") =>
       /\ outcome.kind = "returned"
       /\ outcome.result.error # JNull
       /\ outcome.result.response = JNull
       /\ outcome.result.stats.status = 0
       /\ [outcome.result EXCEPT !.error = JNull]
            = [failureResult(Error(Lit("Failed to fetch"))) EXCEPT !.error = JNull]

\* C10 witness: the timer fired on the in-flight call and the invocation
\* has returned.
C10_Witness ==
  /\ pc = "done" /\ timer = "fired" /\ Len(calls) = 1

\* C11: on the GET, POST and multipart paths alike, the timeout timer is
\* cleared as soon as the call resolves or rejects: a settled call has a
\* cleared timer and an abort signal that was never fired, the signal is
\* aborted only on a call the timer itself ended, and no timer is pending
\* when executeRequest has returned.
C11_TimerClearedWhenCallSettles ==
  /\ net \in {"resolved", "failed"} => (timer = "cleared" /\ ~signalAborted)
  /\ signalAborted => (timer = "fired" /\ net = "aborted")
  /\ pc \in {"reading", "done"} => timer # "pending"
  /\ timer = "pending" => net = "inflight"

\* C11 witness: a multipart call resolved, its timer was cleared, and the
\* invocation has returned.
C11_Witness ==
  /\ pc = "done" /\ net = "resolved" /\ encoding = "multipart"
  /\ timer = "cleared" /\ ~signalAborted

\* The endpoint executeRequest works with.
InterpolatedEndpoint == interpolateString(options.endpoint, options.context)

\* The endpoint passed the pre-flight test of executeRequest.
EndpointAccepted ==
  InterpolatedEndpoint # <<>> /\ urlParses(InterpolatedEndpoint)

\* A header map carries the enabled headers hs and the auth header ah under
\* their proxy names only, and the proxy target.
ProxiedHeaderMap(map, hs, ah) ==
  /\ \A i \in 1..Len(hs) :
       hs[i].enabled =>
         /\ MapHas(map, ProxyHeaderName(hs[i].key))
         /\ (~MapHas(map, hs[i].key) \/ hs[i].key = ContentType)
         /\ ((ah = JNull \/ ah.key # hs[i].key)
             /\ \A j \in (i + 1)..Len(hs) : ~hs[j].enabled \/ hs[j].key # hs[i].key)
            => MapGet(map, ProxyHeaderName(hs[i].key)) = hs[i].value
  /\ ah # JNull =>
       /\ MapHas(map, ProxyHeaderName(ah.key))
       /\ MapGet(map, ProxyHeaderName(ah.key)) = ah.value
       /\ (~MapHas(map, ah.key) \/ ah.key = ContentType)
  /\ MapHas(map, Lit("X-GraphIt-Target"))
  /\ MapGet(map, Lit("X-GraphIt-Target")) = InterpolatedEndpoint

\* C12: in proxy mode the header map buildHeaders returns, and the header
\* map of every call issued on any encoding path, holds each enabled header
\* and the derived auth header under 'X-GraphIt-Header-<name>' and not under
\* <name>, and holds 'X-GraphIt-Target' equal to the interpolated endpoint.
C12_ProxyRenamesHeaders ==
  (pc # "idle" /\ options.useProxy /\ EndpointAccepted) =>
    LET hs == interpolateHeaders(options.headers, options.context)
        ah == buildAuthHeader(interpolateAuth(options.auth, options.context))
    IN /\ ProxiedHeaderMap(
            buildHeaders(options.headers, options.auth, options.context,
                         TRUE, InterpolatedEndpoint), hs, ah)
       /\ \A c \in 1..Len(calls) : ProxiedHeaderMap(calls[c].headers, hs, ah)

\* C12 witness: a call is in flight in proxy mode for options with an
\* enabled header and bearer auth.
C12_Witness ==
  /\ pc = "fetching" /\ options.useProxy /\ Len(calls) = 1
  /\ options.auth.mode = "bearer"
  /\ \E i \in 1..Len(options.headers) : options.headers[i].enabled

\* C13 (as claimed): in proxy mode every call issued, on whichever encoding
\* path, is addressed to the proxy route.
C13_ProxyCallsGoToProxyRoute ==
  options.useProxy =>
    \A c \in 1..Len(calls) : calls[c].url.target = ProxyRoute

\* C14 (as claimed): GET in proxy mode with a valid endpoint and no bound
\* file issues one POST to the proxy route with the headers
\* 'X-GraphIt-Method: GET' and 'X-GraphIt-Target: <endpoint>' and the JSON
\* body {query, variables, operationName}, and does not fail before the call.
C14_ProxiedGetTunnelsAsPost ==
  (/\ pc # "idle"
   /\ options.httpMethod = "GET"
   /\ options.useProxy
   /\ EndpointAccepted
   /\ ~hasBoundFile(options.fileMappings)
   /\ LET v == interpolateString(options.variables, options.context)
      IN v = <<>> \/ JsonParse(v).ok) =>
    /\ Len(calls) = 1
    /\ calls[1].method = "POST"
    /\ calls[1].url.target = ProxyRoute
    /\ MapGet(calls[1].headers, Lit("X-GraphIt-Method")) = Lit("GET")
    /\ MapGet(calls[1].headers, Lit("X-GraphIt-Target")) = InterpolatedEndpoint
    /\ calls[1].body.t = "str"
    /\ JsonParse(calls[1].body.s).ok

\* The number of entries of a query string with the given name.
CountKey(search, key) ==
  Cardinality({i \in 1..Len(search) : search[i].k = key})

RECURSIVE BoundMappings(_)
BoundMappings(ms) ==
  IF ms = <<>> THEN <<>>
  ELSE (IF Head(ms).file # JNull THEN <<Head(ms)>> ELSE <<>>)
       \o BoundMappings(Tail(ms))

\* The value found in v by following the property names parts[i..], or
\* Undefined when there is none.
RECURSIVE ValueAt(_, _, _)
ValueAt(v, parts, i) ==
  IF v.t # "obj" \/ ~ObjHas(v, parts[i]) THEN Undefined
  ELSE IF i = Len(parts) THEN ObjGet(v, parts[i])
  ELSE ValueAt(ObjGet(v, parts[i]), parts, i + 1)

ExpectedOperation(v) ==
  JObj(<<[k |-> Lit("query"), v |-> JStr(options.query)]>>
       \o (IF v # <<>> /\ JsonParse(v).ok
           THEN <<[k |-> Lit("variables"), v |-> JsonParse(v).val]>> ELSE <<>>)
       \o (IF options.operationName # Undefined
           THEN <<[k |-> Lit("operationName"), v |-> options.operationName]>>
           ELSE <<>>))

AuthVariants(auth) ==
  { b \in [mode : {auth.mode},
           bearer : {Undefined, [token |-> <<"s">>], auth.bearer},
           basic : {Undefined, [username |-> <<"u">>, password |-> <<"p">>],
                    auth.basic},
           apiKey : {Undefined,
                     [key |-> <<"z">>, value |-> <<"v">>, addTo |-> "header"],
                     [key |-> <<"z">>, value |-> <<"v">>, addTo |-> "query"],
                     auth.apiKey}] :
      /\ auth.mode = "bearer" => b.bearer = auth.bearer
      /\ auth.mode = "basic" => b.basic = auth.basic
      /\ auth.mode = "api-key" => b.apiKey = auth.apiKey }

\* C18: once executeRequest has issued its call or failed before it, what it
\* did (the call issued, or no call) is what it does for every AuthConfig
\* that agrees with the given one on the mode and on that mode's branch
\* (RequestOptions that differ in the inactive branches only yield the same
\* outbound request); mode 'none' derives no
\* auth header and no api-key parameter; the call carries at most one header
\* more than the call of the same options with mode 'none'.
C18_OnlyActiveAuthBranchCounts ==
  (pc = "fetching" \/ (pc = "done" /\ calls = <<>>)) =>
    /\ \A b \in AuthVariants(options.auth) :
         \E p \in {prepareRequest([options EXCEPT !.auth = b])} :
           /\ encoding = p.encoding
           /\ calls = (IF p.built.threw THEN <<>> ELSE <<p.built.call>>)
    /\ options.auth.mode = "none" =>
         /\ buildAuthHeader(interpolateAuth(options.auth, options.context)) = JNull
         /\ buildApiKeyQueryParam(interpolateAuth(options.auth, options.context)) = <<>>
    /\ calls # <<>> =>
         \E n \in {prepareRequest([options EXCEPT !.auth.mode = "none"])} :
           /\ ~n.built.threw
           /\ Len(calls[1].headers) <= Len(n.built.call.headers) + 1

\* C18 witness: a call is in flight for mode 'none' with a populated bearer
\* branch.
C18_Witness ==
  /\ pc = "fetching" /\ Len(calls) = 1
  /\ options.auth.mode = "none"
  /\ options.auth.bearer # Undefined

\* The headers of a list whose enabled flag is set, in list order.
RECURSIVE EnabledOnly(_)
EnabledOnly(hs) ==
  IF hs = <<>> THEN <<>>
  ELSE (IF Head(hs).enabled THEN <<Head(hs)>> ELSE <<>>) \o EnabledOnly(Tail(hs))

\* No name of a disabled header of hs is in the map, under the name itself
\* or its proxy name, unless an enabled header of hs, the auth header ah or
\* the fixed Content-Type entry has that name.
DisabledNamesAbsent(map, hs, ah) ==
  \A i \in 1..Len(hs) :
    (/\ ~hs[i].enabled
     /\ hs[i].key # ContentType
     /\ (ah = JNull \/ ah.key # hs[i].key)
     /\ \A j \in 1..Len(hs) : hs[j].enabled => hs[j].key # hs[i].key) =>
      /\ ~MapHas(map, hs[i].key)
      /\ ~MapHas(map, ProxyHeaderName(hs[i].key))

\* The connection headers of every subscription leave the disabled headers
\* out: they are the headers computed from the enabled entries alone.
SubscriptionHeadersOmitDisabled ==
  \A o \in SubscriptionOptionsSet :
    /\ subscriptionHeaders(o)
         = subscriptionHeaders([o EXCEPT !.headers = EnabledOnly(o.headers)])
    /\ DisabledNamesAbsent(subscriptionHeaders(o),
                           interpolateHeaders(o.headers, o.context), JNull)

\* C19: a disabled header is not on the wire: what executeRequest did on
\* its way to the call is what it does for the same options with the
\* disabled headers removed, and no call's header map holds the name of a
\* disabled header (direct or proxy); likewise for the connection headers of
\* a subscription; and interpolateHeaders keeps the list's length and every
\* enabled flag.
C19_DisabledHeadersStayOffTheWire ==
  /\ pc # "idle" =>
       /\ \E p \in {prepareRequest(
                      [options EXCEPT !.headers = EnabledOnly(options.headers)])} :
            calls = (IF p.built.threw THEN <<>> ELSE <<p.built.call>>)
       /\ \A c \in 1..Len(calls) :
            DisabledNamesAbsent(
              calls[c].headers,
              interpolateHeaders(options.headers, options.context),
              buildAuthHeader(interpolateAuth(options.auth, options.context)))
  /\ LET hs == interpolateHeaders(options.headers, options.context)
     IN /\ Len(hs) = Len(options.headers)
        /\ \A i \in 1..Len(hs) : hs[i].enabled = options.headers[i].enabled
  /\ SubscriptionHeadersOmitDisabled

\* C19 witness: a call is in flight in proxy mode for options that hold a
\* disabled header.
C19_Witness ==
  /\ pc = "fetching" /\ Len(calls) = 1 /\ options.useProxy
  /\ \E i \in 1..Len(options.headers) : ~options.headers[i].enabled

Throws(script) ==
  \/ ~script.compiles
  \/ /\ StepsRun(script) < Len(script.stmts)
     /\ script.stmts[StepsRun(script) + 1].op = "throw"

\* The message of the exception a throwing script ends by.
ThrownMessage(script) ==
  IF script.compiles THEN script.stmts[StepsRun(script) + 1].message
  ELSE Lit("Unexpected token")

\* The failure result of a run whose script threw: the exception's message
\* and what the script staged through the API before it threw.
FailureWithStaged(r, msg) ==
  \E g \in {OwnGlobalsAfter(msg, StepsRun(msg.script))} :
    /\ r.success = FALSE
    /\ r.error = JStr(ThrownMessage(msg.script))
    /\ r.logs = g.logs
    /\ r.envOverrides = g.envOverrides
    /\ r.varsOverrides = g.varsOverrides
    /\ r.headersOverrides = g.headersOverrides
    /\ Len(r.logs) = Cardinality({j \in 1..StepsRun(msg.script) :
                                    msg.script.stmts[j].op = "log"})

AllPlaceholdersUnknown(s, ctx) ==
  \A i \in 1..Len(s) :
    matchEnd(s, i) # 0 =>
      MapGet(ctx.variables, trim(SubSeq(s, i + 2, matchEnd(s, i) - 2))) = Undefined

\* C30: interpolateString leaves a placeholder whose trimmed name has no
\* value in the context exactly as written: applied to a text none of whose
\* placeholders has a value, be it the template (as with an empty context)
\* or an output of an earlier application with the same context, it returns
\* that text unchanged.
C30_UnknownPlaceholdersAreKept ==
  \A k \in 1..Len(ioutputs) :
    AllPlaceholdersUnknown(PassInput(k), icontext) => ioutputs[k] = PassInput(k)

\* The run's pre-request script was run and failed.
PreScriptFailed ==
  /\ hpc \notin {"idle", "preScript"}
  /\ trim(hrun.preRequestScript.source) # <<>>
  /\ Throws(hrun.preRequestScript)

\* The run's post-request script was run and failed.
PostScriptFailed ==
  /\ hpc = "done"
  /\ hresult # Undefined
  /\ IsTruthy(hresult.response)
  /\ trim(hrun.postRequestScript.source) # <<>>
  /\ Throws(hrun.postRequestScript)

PreScriptResult ==
  runScript(hrun.preRequestScript, hrun.envVars, hrun.variables, hrun.headers,
            Undefined)

\* C23: after a successful pre-request script, the options passed to
\* executeRequest reflect every override the script staged: each env.set
\* value is in the interpolation context, each vars.set value is in the
\* variables sent, and each headers.set value is in the header list.
C23_RequestReflectsOverrides ==
  (/\ hreq # NoRequest
   /\ hrun.preRequestScript.source # <<>>
   /\ ~Throws(hrun.preRequestScript)) =>
    \E r \in {PreScriptResult} :
      /\ \A i \in 1..Len(r.envOverrides) :
           MapGet(hreq.context.variables, r.envOverrides[i].k) = r.envOverrides[i].v
      /\ \A i \in 1..Len(r.varsOverrides) :
           /\ JsonParse(hreq.variables).ok
           /\ JsonParse(hreq.variables).val.t = "obj"
           /\ MapGet(JsonParse(hreq.variables).val.m, r.varsOverrides[i].k)
                = r.varsOverrides[i].v
      /\ \A i \in 1..Len(r.headersOverrides) :
           \E j \in 1..Len(hreq.headers) :
             /\ hreq.headers[j].key = r.headersOverrides[i].k
             /\ hreq.headers[j].value = r.headersOverrides[i].v

\* The places in the events of the callbacks of kind cb and type type that
\* handle h received.
Callbacks(h, cb, type) ==
  {i \in 1..Len(events) : events[i] = Event(h, cb, type)}

\* The transport events of the kinds evs raised for handle h.
Raised(h, evs) ==
  {i \in 1..Len(transport) : transport[i].h = h /\ transport[i].ev \in evs}

\* The handles of ws and sse subscriptions.
StreamHandles == {h \in 1..Len(handles) : handles[h].protocol \in {"ws", "sse"}}

\* C24: for each ws or sse subscription onConnected is invoked no more than
\* once, the callback that follows it is onMessage with the connection
\* message, and every data message comes after that connection message.
C24_ConnectedOnceThenConnectionMessage ==
  \A h \in StreamHandles :
    /\ Cardinality(Callbacks(h, "onConnected", "none")) <= 1
    /\ \A i \in Callbacks(h, "onConnected", "none") :
         i < Len(events) /\ events[i + 1] = Event(h, "onMessage", "connection")
    /\ \A i \in Callbacks(h, "onMessage", "data") :
         \E j \in Callbacks(h, "onMessage", "connection") : j < i

\* C25: every transport error of a ws or sse subscription, raised on the
\* connection or on the sink, produced one error message through onMessage
\* and one onError call.
C25_ErrorsAreDeliveredTwice ==
  \A h \in StreamHandles :
    /\ Cardinality(Callbacks(h, "onMessage", "error"))
         = Cardinality(Raised(h, {"error", "sinkError"}))
    /\ Cardinality(Callbacks(h, "onError", "none"))
         = Cardinality(Raised(h, {"error", "sinkError"}))

\* C26: every end of the stream of a ws or sse subscription on the server
\* side, the subscription completing or the connection closing, produced a
\* complete message and an onComplete call, and every complete message is
\* followed by the onComplete call of the same event.
C26_CompleteMessageWithOnComplete ==
  \A h \in StreamHandles :
    /\ Cardinality(Callbacks(h, "onMessage", "complete"))
         = Cardinality(Raised(h, {"closed", "complete"}))
    /\ Cardinality(Callbacks(h, "onComplete", "none"))
         = Cardinality(Raised(h, {"closed", "complete"}))
    /\ \A i \in Callbacks(h, "onMessage", "complete") :
         i < Len(events) /\ events[i + 1] = Event(h, "onComplete", "none")

\* The callbacks whose message the log accepted: those invoked since the
\* log was last cleared, while it was not paused.
Accepted ==
  {i \in (cleared + 1)..Len(events) :
     events[i].cb \in {"onMessage", "onError"} /\ i \notin discarded}

\* C28: the message log holds, in the order of arrival, exactly the messages
\* the callbacks delivered while the log was not paused (since it was last
\* cleared): each at the place its arrival gives it, none that arrived
\* while the log was paused.
C28_LogIsArrivalOrder ==
  /\ Len(subscriptionMessages) = Cardinality(Accepted)
  /\ \A k \in 1..Len(subscriptionMessages) :
       /\ subscriptionMessages[k].at = Ascending(Accepted)[k]
       /\ subscriptionMessages[k] = paneMessage(events, subscriptionMessages[k].at)
  /\ \A k \in 1..Len(subscriptionMessages) :
       subscriptionMessages[k].at \notin discarded

\* C28 witness: the log holds two messages in arrival order and a third,
\* which arrived between them while the log was paused, is missing.
C28_Witness ==
  /\ Len(subscriptionMessages) >= 2
  /\ \E i \in discarded :
       /\ subscriptionMessages[1].at < i
       /\ i < subscriptionMessages[Len(subscriptionMessages)].at

\* A step in which subscribe returned a handle of protocol appsync.
AppSyncSubscribed ==
  /\ Len(handles') = Len(handles) + 1
  /\ handles'[Len(handles')].protocol = "appsync"

\* A step in which unsubscribe() of an appsync handle was called.
AppSyncUnsubscribed ==
  \E h \in 1..Len(handles) :
    /\ handles[h].protocol = "appsync"
    /\ Len(handles') = Len(handles)
    /\ handles'[h].calls = handles[h].calls + 1

\* C27: subscribe with protocol appsync delivers one error message and then
\* calls onError once, and these are the only callbacks the subscription
\* ever receives (no onConnected, no onComplete); it creates no client and
\* leaves the tracked ws and sse clients as they are; unsubscribe() of its
\* handle changes nothing.
C27_AppSyncIsAStub ==
  /\ [](\A h \in 1..Len(handles) :
          handles[h].protocol = "appsync" =>
            /\ handles[h].client = 0
            /\ {i \in 1..Len(events) : events[i].h = h}
                 = Callbacks(h, "onMessage", "error") \cup Callbacks(h, "onError", "none")
            /\ Cardinality(Callbacks(h, "onMessage", "error")) = 1
            /\ Cardinality(Callbacks(h, "onError", "none")) = 1
            /\ \A i \in Callbacks(h, "onMessage", "error") :
                 i + 1 \in Callbacks(h, "onError", "none"))
  /\ [][/\ AppSyncSubscribed =>
             /\ UNCHANGED <<clients, wsClient, sseClient>>
             /\ events' = events \o <<Event(Len(handles'), "onMessage", "error"),
                                      Event(Len(handles'), "onError", "none")>>
        /\ AppSyncUnsubscribed =>
             UNCHANGED <<clients, wsClient, sseClient, events>>]_vars

\* C27 witness: unsubscribe() of an appsync handle has been called while a
\* ws client and an sse client are tracked and open.
C27_Witness ==
  /\ \E h \in 1..Len(handles) : handles[h].protocol = "appsync" /\ handles[h].calls > 0
  /\ wsClient # 0 /\ ~clients[wsClient].disposed
  /\ sseClient # 0 /\ ~clients[sseClient].disposed

\* C29: when disconnectAll returns, both tracked references are empty and
\* no ws or sse client created by an earlier subscribe call remains open.
C29_DisconnectAllClosesEverything ==
  [][DisconnectAll =>
       /\ wsClient' = 0
       /\ sseClient' = 0
       /\ \A c \in 1..Len(clients') : clients'[c].disposed]_vars

\* The placeholders of a text: the places where /\{\{([^}]+)\}\}/ matches
\* and that lie in no match that begins earlier (the matches a global
\* replace visits, from left to right).
PlaceholderStarts(s) ==
  {i \in 1..Len(s) :
     /\ matchEnd(s, i) # 0
     /\ \A j \in 1..(i - 1) : matchEnd(s, j) # 0 => matchEnd(s, j) < i}

\* The trimmed name of the placeholder that begins at i.
PlaceholderName(s, i) == trim(SubSeq(s, i + 2, matchEnd(s, i) - 2))

\* The string form of a value: JSON.stringify for an object, the default
\* string conversion for a primitive.
StringForm(value) ==
  IF value.t \in {"obj", "arr"} THEN JsonStringify(value) ELSE stringOf(value)

\* What position i of the text contributes to the output: the string form
\* of the value for the start of a placeholder whose name the context
\* defines, nothing for the rest of such a placeholder, and the character
\* itself anywhere else.
Contribution(s, ctx, i) ==
  IF i \in PlaceholderStarts(s) /\ MapHas(ctx.variables, PlaceholderName(s, i))
  THEN StringForm(MapGet(ctx.variables, PlaceholderName(s, i)))
  ELSE IF \E j \in PlaceholderStarts(s) :
            /\ j < i /\ i <= matchEnd(s, j)
            /\ MapHas(ctx.variables, PlaceholderName(s, j))
  THEN <<>>
  ELSE <<s[i]>>

RECURSIVE Contributions(_, _, _)
Contributions(s, ctx, i) ==
  IF i > Len(s) THEN <<>>
  ELSE Contribution(s, ctx, i) \o Contributions(s, ctx, i + 1)

\* No placeholder of the text names a property that the context only
\* inherits.
NoInheritedName(s, ctx) ==
  \A i \in PlaceholderStarts(s) :
    PlaceholderName(s, i) \in ObjectPrototypeNames
      => MapHas(ctx.variables, PlaceholderName(s, i))

\* C31: interpolateString replaces every placeholder whose trimmed name the
\* context defines by the string form of the value (JSON.stringify for an
\* object, the default string conversion for a primitive) and leaves all
\* the other text as it is.
C31_DefinedPlaceholdersAreReplaced ==
  \A k \in 1..Len(ioutputs) :
    NoInheritedName(PassInput(k), icontext) =>
      ioutputs[k] = Contributions(PassInput(k), icontext, 1)

\* C31 witness: a template with a spaced placeholder of a string variable
\* and a placeholder of an object variable was interpolated.
C31_Witness ==
  /\ itemplate = <<"{", "{", " ", "U", " ", "}", "}", "{", "{", "V", "}", "}">>
  /\ ioutputs # <<>>
  /\ ioutputs[1] = <<"a", ":", "x", "{", "\"", "k", "\"", ":", "1", "}">>

\* The first placeholder of the text with the trimmed name n.
FirstPlace(s, n) ==
  Min({i \in PlaceholderStarts(s) : PlaceholderName(s, i) = n})

\* C32: extractVariableNames returns the trimmed names of the placeholders
\* of the template, each exactly once, in the order of their first
\* occurrences; without a placeholder it returns the empty list.
C32_NamesOnceInFirstSeenOrder ==
  \A c \in 1..Len(inames) :
    LET names == inames[c]
    IN /\ {names[k] : k \in 1..Len(names)}
            = {PlaceholderName(itemplate, i) : i \in PlaceholderStarts(itemplate)}
       /\ \A k, l \in 1..Len(names) :
            k < l => /\ names[k] # names[l]
                     /\ FirstPlace(itemplate, names[k]) < FirstPlace(itemplate, names[l])
       /\ PlaceholderStarts(itemplate) = {} => names = <<>>

\* C32 witness: a template that names U twice, once with spaces, gave the
\* one name U.
C32_Witness ==
  /\ itemplate = <<"{", "{", " ", "U", " ", "}", "}", "{", "{", "U", "}", "}">>
  /\ inames = << << <<"U">> >> >>

\* An HTTP call was issued for the run: executeRequest was called and did
\* not throw before the call.
CallIssued == hreq # NoRequest /\ ~prepareRequest(hreq).built.threw

\* C33: the stored result of a run has stats = null only if the run failed
\* before any HTTP call was issued; when a call was issued, the result the
\* run leaves in the store has stats.
C33_NullStatsOnlyBeforeAnyCall ==
  (hpc = "done" /\ requestResult.stats = JNull) => ~CallIssued

\* C34 (as claimed): on the multipart path every variables text and every
\* mapping path is handled without raising: once the multipart encoding is
\* selected the request is built and the call is issued.
C34_MultipartNeverRaises ==
  (pc # "idle" /\ encoding = "multipart") => Len(calls) = 1

\* The statements of the message's script before statement n that stage a
\* value for the environment variable name.
EnvSetsBefore(msg, n, name) ==
  {j \in 1..(n - 1) : /\ msg.script.stmts[j].op = "envSet"
                      /\ msg.script.stmts[j].name = name}

\* The variables as claimed at statement n: the original ones overlaid with
\* the objects of the vars.set calls before n, in their order.
RECURSIVE ClaimedVars(_, _)
ClaimedVars(msg, n) ==
  IF n <= 1 THEN (IF msg.vars.t = "obj" THEN msg.vars.m ELSE <<>>)
  ELSE IF msg.script.stmts[n - 1].op = "varsSet"
  THEN spread(ClaimedVars(msg, n - 1), msg.script.stmts[n - 1].obj.m, 1)
  ELSE ClaimedVars(msg, n - 1)

\* The value of an argument of statement n as claimed: env.get(name) is the
\* value of the latest env.set(name, v) before n, else the original value
\* env[name].
ClaimedArg(e, msg, n) ==
  CASE e.t = "envGet" ->
         IF EnvSetsBefore(msg, n, e.name) # {}
         THEN msg.script.stmts[Max(EnvSetsBefore(msg, n, e.name))].value
         ELSE PropertyGet(msg.env, e.name)
    [] e.t = "varsGet" -> JObj(ClaimedVars(msg, n))
    [] e.t = "response" -> msg.response
    [] OTHER -> e

RECURSIVE ClaimedLine(_, _, _, _)
ClaimedLine(args, i, msg, n) ==
  IF i > Len(args) THEN <<>>
  ELSE (IF i = 1 THEN <<>> ELSE <<" ">>)
       \o logText(ClaimedArg(args[i], msg, n))
       \o ClaimedLine(args, i + 1, msg, n)

\* C35: while a script runs, each line it has logged shows its reads as
\* claimed (env.get the latest staged value, else the original one;
\* vars.get the original variables overlaid with what was staged), and the
\* override maps hold exactly what the script staged so far.
C35_ReadsAreLayered ==
  (wpc = "running" /\ cur.script.compiles) =>
    LET stmts == cur.script.stmts
        done == Min({ip, Len(stmts) + 1}) - 1
    IN /\ \A n \in 1..done :
            stmts[n].op = "log" =>
              logs[Cardinality({j \in 1..n : stmts[j].op = "log"})]
                = ClaimedLine(stmts[n].args, 1, cur, n)
       /\ \A k \in 1..Len(envOverrides) :
            /\ EnvSetsBefore(cur, done + 1, envOverrides[k].k) # {}
            /\ envOverrides[k].v =
                 stmts[Max(EnvSetsBefore(cur, done + 1, envOverrides[k].k))].value
       /\ \A n \in 1..done :
            stmts[n].op = "envSet" => MapHas(envOverrides, stmts[n].name)
       /\ spread(IF cur.vars.t = "obj" THEN cur.vars.m ELSE <<>>, varsOverrides, 1)
            = ClaimedVars(cur, done + 1)

\* The worker has posted the result of the run's execute message: the
\* message is neither waiting in the worker's queue nor being run.
ResultPosted(r) ==
  /\ \A i \in 1..Len(inbox) : inbox[i].run # r
  /\ ~(wpc = "running" /\ cur.run = r)

\* C36: the promise of a run that posted an execute message resolves with
\* the one result message the worker posts for that message: no run is
\* resolved before the worker has posted the result of its message, and
\* the worker never has a timeout result to post beside a completion.
C36_ResolvedByOwnResultMessage ==
  /\ \A r \in 1..Len(runs) :
       (runs[r].state = "resolved" /\ runs[r].message # NoMessage) => ResultPosted(r)
  /\ wpc = "idle" => wtimer # "pending"

\* C38: when two runs are in flight on the worker at the same time, the
\* promise of each resolves with the result of its own script.
C38_EachRunGetsItsOwnResult ==
  \A r \in 1..Len(runs) :
    (runs[r].state = "resolved" /\ runs[r].message # NoMessage) =>
      runs[r].result = OwnResult(runs[r].message)

\* C37: a call of unsubscribe() on the handle of one subscription leaves the
\* connection of every later subscription of the same transport kind as it
\* was: its client is not disposed and the reference to it is not cleared.
C37_UnsubscribeSparesLaterSubscriptions ==
  [][\A h \in 1..Len(handles) :
       (Len(handles') = Len(handles) /\ handles'[h].calls = handles[h].calls + 1) =>
         \A g \in (h + 1)..Len(handles) :
           (handles[g].protocol = handles[h].protocol /\ handles[g].client # 0) =>
             /\ clients'[handles[g].client].disposed
                  = clients[handles[g].client].disposed
             /\ wsClient = handles[g].client => wsClient' = wsClient
             /\ sseClient = handles[g].client => sseClient' = sseClient]_vars

\* C39: the timeout covers the whole call, the body of the response
\* included: as long as executeRequest is waiting, for the response or for
\* its body, the timeout timer is pending or has fired, so that a call
\* whose body never finishes is aborted and returns.
C39_TimeoutCoversTheBody ==
  pc \in {"fetching", "reading"} => timer \in {"pending", "fired"}

\* C40: every run handleRun starts ends with requestLoading = false:
\* whenever requestLoading is true it becomes false again.
C40_LoadingIsAlwaysReset ==
  requestLoading ~> ~requestLoading

=============================================================================
